---- MODULE Spec2Model ----
(***************************************************************************)
(* Verification model of mc-mod-compat-check (package mc_mod_compat):      *)
(* Evidence / Evaluator, the online and local verification strategies and  *)
(* CheckerPipeline.check_files.                                            *)
(*                                                                         *)
(* Conventions.  A Python float confidence c is modelled by the integer    *)
(* 10*c (0.6 -> 6).  Python None is the string "None".  A call that raises *)
(* an exception is a record with raised = TRUE.                            *)
(***************************************************************************)
EXTENDS Integers, Sequences, FiniteSets, TLC

VARIABLES
    files,        \* the file system: path -> [readable, sha1, content, archive]
    modrinth,     \* catalog A as seen through ModrinthClient: [raises, items]
    curseforge,   \* catalog B as seen through CurseForgeClient: [raises, items]
    call,         \* the operation in progress and its arguments
    pc,           \* position inside the operation
    pending_files,  \* check_files: the set of paths not yet resolved
    final_results,  \* check_files: the dict of accepted results, in insertion order
    next_strategy,  \* check_files: index of the next strategy of the for loop
    mr_calls,     \* the hash lists passed to get_versions_by_hashes, in call order
    cf_calls,     \* the fingerprint lists passed to get_fingerprint_matches
    reports,      \* check_files: the <<strategy, path>> pairs verified so far
    net,          \* NetworkClient._request: its locals and what the server did
    gui,          \* ModCheckerGUI: its flags and the locals of _run_check
    ret           \* the value returned by the operation, or its exception

vars == <<files, modrinth, curseforge, call, pc, pending_files, final_results,
          next_strategy, mr_calls, cf_calls, reports, net, gui, ret>>

\* ------------------------------------------------------------------ bounds
\* longest evidence list handed to Evaluator.evaluate
MaxEvidence == 3
\* largest max_retries a NetworkClient is built with (the default is 3)
MaxRetries == 3

\* ------------------------------------------------------------- common.py
None == "None"

\* CheckStatus values used by the checker package
OK == "ok"
WRONG_MC == "wrong_mc"
WRONG_LOADER == "wrong_loader"
STATUS_UNKNOWN == "unknown"

\* SupportLevel
CONFIRMED == "confirmed"
LIKELY == "likely"
POSSIBLE == "possible"
UNSUPPORTED == "unsupported"
LEVEL_UNKNOWN == "level_unknown"

SupportLevel == {CONFIRMED, LIKELY, POSSIBLE, UNSUPPORTED, LEVEL_UNKNOWN}

\* dataclass Evidence
Evidence(source, confidence, level, reason) ==
    [source |-> source, confidence |-> confidence, level |-> level, reason |-> reason]

\* dataclass ModCheckResult, with its defaults for the fields not given
ModCheckResult(file_name, file_path, status, reason, source, level, evidence) ==
    [file_name |-> file_name, file_path |-> file_path, status |-> status,
     reason |-> reason, source |-> source, mod_name |-> None,
     mod_version |-> None, url |-> None, level |-> level, evidence |-> evidence]

\* ---------------------------------------------------------- reason texts
\* The literal parts of the reason strings; an f-string with interpolated
\* data is the tuple of its literal part and the interpolated value.
R_MR_FOUND == "Found on Modrinth, version/loader mismatch or unlisted"
R_MR_VERSION == "Modrinth lists version "
R_MR_LOADERS == "Modrinth lists loaders "
R_CF_FOUND == "Found on CurseForge, version/loader mismatch or unlisted"
R_CF_VERSION == "CurseForge lists version "
R_CF_LOADERS == "CurseForge lists loaders "

\* the literal fragments that contain the substring "loader" once lower-cased
LoaderWords == {R_MR_FOUND, R_MR_LOADERS, R_CF_FOUND, R_CF_LOADERS}

\* ------------------------------------------------- text as character lists
\* A text that the code parses (a version, a range expression, a file name)
\* is the sequence of its characters.
Digits == {"0", "1", "2", "3", "4", "5", "6", "7", "8", "9"}
Whitespace == {" ", "\t", "\n", "\r"}

DigitVal(c) ==
    CASE c = "0" -> 0 [] c = "1" -> 1 [] c = "2" -> 2 [] c = "3" -> 3 [] c = "4" -> 4
      [] c = "5" -> 5 [] c = "6" -> 6 [] c = "7" -> 7 [] c = "8" -> 8 [] c = "9" -> 9

DigitChar(d) ==
    CASE d = 0 -> "0" [] d = 1 -> "1" [] d = 2 -> "2" [] d = 3 -> "3" [] d = 4 -> "4"
      [] d = 5 -> "5" [] d = 6 -> "6" [] d = 7 -> "7" [] d = 8 -> "8" [] d = 9 -> "9"

RECURSIVE LStrip(_)
LStrip(s) == IF s # <<>> /\ Head(s) \in Whitespace THEN LStrip(Tail(s)) ELSE s

RECURSIVE RStrip(_)
RStrip(s) ==
    IF s # <<>> /\ s[Len(s)] \in Whitespace THEN RStrip(SubSeq(s, 1, Len(s) - 1)) ELSE s

\* str.strip()
Strip(s) == RStrip(LStrip(s))

\* str.startswith / str.endswith
StartsWith(s, prefix) == Len(s) >= Len(prefix) /\ SubSeq(s, 1, Len(prefix)) = prefix
EndsWith(s, suffix) ==
    Len(s) >= Len(suffix) /\ SubSeq(s, Len(s) - Len(suffix) + 1, Len(s)) = suffix

\* s[n:]
Drop(s, n) == SubSeq(s, n + 1, Len(s))

\* sub in s
Contains(s, sub) == \E i \in 1..(Len(s) - Len(sub) + 1) : SubSeq(s, i, i + Len(sub) - 1) = sub

RECURSIVE Replace(_, _)
\* s.replace(sub, '')
Replace(s, sub) ==
    IF s = <<>> THEN <<>>
    ELSE IF StartsWith(s, sub) THEN Replace(Drop(s, Len(sub)), sub)
    ELSE <<Head(s)>> \o Replace(Tail(s), sub)

RECURSIVE SplitAcc(_, _, _)
SplitAcc(s, sep, cur) ==
    IF s = <<>> THEN <<cur>>
    ELSE IF Head(s) = sep THEN <<cur>> \o SplitAcc(Tail(s), sep, <<>>)
    ELSE SplitAcc(Tail(s), sep, Append(cur, Head(s)))

\* s.split(sep) for a one-character separator
Split(s, sep) == SplitAcc(s, sep, <<>>)

RECURSIVE DigitRun(_)
\* the leading run of digits of s
DigitRun(s) ==
    IF s # <<>> /\ Head(s) \in Digits THEN <<Head(s)>> \o DigitRun(Tail(s)) ELSE <<>>

RECURSIVE IntOf(_)
\* int() of a non-empty digit string
IntOf(ds) == IF ds = <<>> THEN 0 ELSE 10 * IntOf(SubSeq(ds, 1, Len(ds) - 1)) + DigitVal(ds[Len(ds)])

RECURSIVE StrOf(_)
\* str() of a natural number
StrOf(n) == IF n < 10 THEN <<DigitChar(n)>> ELSE StrOf(n \div 10) \o <<DigitChar(n % 10)>>

\* -------------------------------------------------- core/version_range.py
\* int(re.match(r"(\d+)", part).group(1)), 0 when there is no match
LeadingInt(part) == IF DigitRun(part) = <<>> THEN 0 ELSE IntOf(DigitRun(part))

\* McVersion.__init__ / McVersion._parse: the triple (major, minor, patch)
McVersion(version_str) ==
    LET original == Strip(version_str)
        s == IF original # <<>> /\ Head(original) \in {"v", "V"} THEN Tail(original) ELSE original
        parts == Split(s, ".")
    IN <<LeadingInt(parts[1]),
         IF Len(parts) > 1 THEN LeadingInt(parts[2]) ELSE 0,
         IF Len(parts) > 2 THEN LeadingInt(parts[3]) ELSE 0>>

\* a comparison that ignores the patch component
VersionLtNoPatch(a, b) ==
    \/ a[1] < b[1]
    \/ a[1] = b[1] /\ a[2] < b[2]

\* McVersion.__lt__: tuple comparison
VersionLt(a, b) ==
    \/ a[1] < b[1]
    \/ a[1] = b[1] /\ a[2] < b[2]
    \/ a[1] = b[1] /\ a[2] = b[2] /\ a[3] < b[3]

\* McVersion.__eq__
VersionEq(a, b) == a[1] = b[1] /\ a[2] = b[2] /\ a[3] = b[3]

\* McVersion.__le__, __gt__, __ge__
VersionLe(a, b) == VersionLt(a, b) \/ VersionEq(a, b)
VersionGt(a, b) == ~VersionLe(a, b)
VersionGe(a, b) == ~VersionLt(a, b)

\* an absent bound (min_ver / max_ver is None)
NoVersion == <<>>

\* f"{major}.{minor}.{patch}"
FormatVersion(major, minor, patch) == StrOf(major) \o <<".">> \o StrOf(minor) \o <<".">> \o StrOf(patch)

\* VersionRange.__init__ / VersionRange._parse
VersionRange(range_str) ==
    LET s == Strip(range_str)
        dflt == [min_ver |-> NoVersion, max_ver |-> NoVersion,
                 min_inclusive |-> TRUE, max_inclusive |-> FALSE]
    IN IF s = <<>> THEN dflt
       ELSE IF Contains(s, <<".", "x">>)
       THEN LET base == Replace(s, <<".", "x">>)
                mn == McVersion(base)
            IN [min_ver |-> mn,
                max_ver |-> IF mn[3] = 0 /\ Len(Split(base, ".")) = 2
                            THEN McVersion(FormatVersion(mn[1], mn[2] + 1, 0))
                            ELSE McVersion(FormatVersion(mn[1], mn[2], mn[3] + 1)),
                min_inclusive |-> TRUE, max_inclusive |-> FALSE]
       ELSE IF Head(s) \in {"[", "("} /\ s[Len(s)] \in {"]", ")"}
       THEN LET content == SubSeq(s, 2, Len(s) - 1)
                parts == Split(content, ",")
                incl == [dflt EXCEPT !.min_inclusive = (Head(s) = "["),
                                     !.max_inclusive = (s[Len(s)] = "]")]
            IN IF Len(parts) = 2
               THEN [incl EXCEPT
                       !.min_ver = IF Strip(parts[1]) # <<>> THEN McVersion(Strip(parts[1])) ELSE NoVersion,
                       !.max_ver = IF Strip(parts[2]) # <<>> THEN McVersion(Strip(parts[2])) ELSE NoVersion]
               ELSE IF Len(parts) = 1
               THEN [incl EXCEPT !.min_ver = McVersion(Strip(parts[1])),
                                 !.max_ver = McVersion(Strip(parts[1]))]
               ELSE incl
       ELSE IF StartsWith(s, <<">", "=">>)
       THEN [dflt EXCEPT !.min_ver = McVersion(Drop(s, 2)), !.min_inclusive = TRUE]
       ELSE IF StartsWith(s, <<">">>)
       THEN [dflt EXCEPT !.min_ver = McVersion(Drop(s, 1)), !.min_inclusive = FALSE]
       ELSE IF StartsWith(s, <<"<", "=">>)
       THEN [dflt EXCEPT !.max_ver = McVersion(Drop(s, 2)), !.max_inclusive = TRUE]
       ELSE IF StartsWith(s, <<"<">>)
       THEN [dflt EXCEPT !.max_ver = McVersion(Drop(s, 1)), !.max_inclusive = FALSE]
       ELSE [min_ver |-> McVersion(s), max_ver |-> McVersion(s),
             min_inclusive |-> TRUE, max_inclusive |-> TRUE]

\* VersionRange.contains(version, relaxed)
RangeContains(vr, version, relaxed) ==
    LET v == McVersion(version)
        min_ok == \/ vr.min_ver = NoVersion
                  \/ IF vr.min_inclusive THEN ~VersionLt(v, vr.min_ver)
                     ELSE ~VersionLe(v, vr.min_ver)
        max_ok == \/ vr.max_ver = NoVersion
                  \/ IF vr.max_inclusive THEN ~VersionGt(v, vr.max_ver)
                     ELSE ~VersionGe(v, vr.max_ver)
    IN \/ min_ok /\ max_ok
       \/ /\ relaxed
          /\ vr.min_ver # NoVersion /\ vr.max_ver # NoVersion
          /\ VersionEq(vr.min_ver, vr.max_ver)
          /\ v[1] = vr.min_ver[1] /\ v[2] = vr.min_ver[2]

\* ------------------------------------------------------------ environment
\* A file path is the pair <<directory, file name>>; os.path.basename and
\* fp.split("/")[-1] both give the second component.
Basename(fp) == fp[2]

\* the loader names, as character lists
FABRIC == <<"f", "a", "b", "r", "i", "c">>
QUILT == <<"q", "u", "i", "l", "t">>
FORGE == <<"f", "o", "r", "g", "e">>
NEOFORGE == <<"n", "e", "o", "f", "o", "r", "g", "e">>

\* LOADER_COMPAT, and LOADER_COMPAT.get(l, {l})
LOADER_COMPAT(l) ==
    CASE l = FABRIC -> {FABRIC, QUILT}
      [] l = QUILT -> {QUILT, FABRIC}
      [] l = FORGE -> {FORGE, NEOFORGE}
      [] l = NEOFORGE -> {NEOFORGE, FORGE}
      [] OTHER -> {l}

UpperCase == <<"A", "B", "C", "D", "E", "F", "G", "H", "I", "J", "K", "L", "M", "N", "O", "P", "Q", "R", "S", "T", "U", "V", "W", "X", "Y", "Z">>
LowerCase == <<"a", "b", "c", "d", "e", "f", "g", "h", "i", "j", "k", "l", "m", "n", "o", "p", "q", "r", "s", "t", "u", "v", "w", "x", "y", "z">>

LowerChar(c) ==
    IF \E i \in DOMAIN UpperCase : UpperCase[i] = c
    THEN LowerCase[CHOOSE i \in DOMAIN UpperCase : UpperCase[i] = c]
    ELSE c

\* str.lower()
Lower(s) == [i \in DOMAIN s |-> LowerChar(s[i])]

\* v[0].isdigit(); the caller checks v # "" first where indexing would raise
FirstIsDigit(v) == v[1] \in Digits

\* any(p(x) for x in seq)
AnyIn(seq, S) == \E i \in DOMAIN seq : seq[i] \in S

\* [f(x) for x in seq]
MapLower(seq) == [i \in DOMAIN seq |-> Lower(seq[i])]

RECURSIVE SelectSeqBy(_, _)
\* [x for x in seq if x in S]
SelectSeqBy(seq, S) ==
    IF seq = <<>> THEN <<>>
    ELSE (IF Head(seq) \in S THEN <<Head(seq)>> ELSE <<>>) \o SelectSeqBy(Tail(seq), S)

Range(seq) == {seq[i] : i \in DOMAIN seq}

\* ------------------------------------------------------ core/metadata.py
\* an absent text (None); callers only test it for truthiness, as they do ""
NoText == <<>>

TOML_WINDOW == 30

\* the smaller of two numbers
Min(a, b) == IF a < b THEN a ELSE b

\* extract_minecraft_version_range_from_toml.  The text is the sequence of
\* its lines, a line being [mc_modid, has_range, range_text]: whether
\* _TOML_MINECRAFT_BLOCK_RE matches it, whether _TOML_VERSION_RANGE_RE
\* matches it, and group(1) of that match.
extract_minecraft_version_range_from_toml(lines) ==
    LET hits == {i \in DOMAIN lines :
                    /\ lines[i].mc_modid
                    /\ \E j \in i..Min(i + TOML_WINDOW - 1, Len(lines)) : lines[j].has_range}
    IN IF hits = {} THEN NoText
       ELSE LET i == CHOOSE x \in hits : \A y \in hits : x <= y
                js == {j \in i..Min(i + TOML_WINDOW - 1, Len(lines)) : lines[j].has_range}
                j == CHOOSE x \in js : \A y \in js : x <= y
            IN Strip(lines[j].range_text)

NameSeps == {"-", "_", ".", "+", " "}

\* the alternatives of _LOADER_NAME_RE, in the order of the pattern
LoaderKeywords == <<FABRIC, FORGE, NEOFORGE, QUILT>>

\* keyword kw stands at index k of s and is followed by the end or a separator
KeywordAt(s, k, kw) ==
    /\ k + Len(kw) - 1 <= Len(s)
    /\ SubSeq(s, k, k + Len(kw) - 1) = kw
    /\ (k + Len(kw) > Len(s) \/ s[k + Len(kw)] \in NameSeps)

\* heuristic_detect_loader: the leftmost keyword that follows the start or a
\* separator, lower-cased; NoText when there is none
heuristic_detect_loader(name) ==
    LET s == Lower(name)
        ks == {k \in 1..Len(s) :
                  /\ (k = 1 \/ s[k - 1] \in NameSeps)
                  /\ \E n \in DOMAIN LoaderKeywords : KeywordAt(s, k, LoaderKeywords[n])}
    IN IF ks = {} THEN NoText
       ELSE LET k == CHOOSE x \in ks : \A y \in ks : x <= y
                n == CHOOSE x \in DOMAIN LoaderKeywords :
                        /\ KeywordAt(s, k, LoaderKeywords[x])
                        /\ \A y \in DOMAIN LoaderKeywords :
                              KeywordAt(s, k, LoaderKeywords[y]) => x <= y
            IN LoaderKeywords[n]

\* the number of characters that [0-9]+\.[0-9]+(?:\.[0-9]+)? matches at the
\* head of s, 0 when it does not match
VersionTokenLen(s) ==
    LET d1 == Len(DigitRun(s))
        r1 == Drop(s, d1)
        d2 == IF r1 # <<>> /\ Head(r1) = "." THEN Len(DigitRun(Tail(r1))) ELSE 0
        r2 == Drop(s, d1 + 1 + d2)
        d3 == IF r2 # <<>> /\ Head(r2) = "." THEN Len(DigitRun(Tail(r2))) ELSE 0
    IN IF d1 = 0 \/ d2 = 0 THEN 0
       ELSE IF d3 = 0 THEN d1 + 1 + d2
       ELSE d1 + 1 + d2 + 1 + d3

\* the marker words of the primary pattern, in the order of the pattern
MarkerWords == <<<<"m", "c">>, <<"m", "i", "n", "e", "c", "r", "a", "f", "t">>, <<"f", "o", "r">>>>

\* the length of the marker word (and optional separator) that the primary
\* pattern matches at the head of s before a version token, 0 when none
MarkerLen(s) ==
    LET ok == {n \in DOMAIN MarkerWords :
                  /\ StartsWith(s, MarkerWords[n])
                  /\ LET r == Drop(s, Len(MarkerWords[n]))
                     IN \/ r # <<>> /\ Head(r) \in {"-", "_", " "} /\ VersionTokenLen(Tail(r)) > 0
                        \/ VersionTokenLen(r) > 0}
    IN IF ok = {} THEN 0
       ELSE LET n == CHOOSE x \in ok : \A y \in ok : x <= y
                r == Drop(s, Len(MarkerWords[n]))
            IN IF r # <<>> /\ Head(r) \in {"-", "_", " "} /\ VersionTokenLen(Tail(r)) > 0
               THEN Len(MarkerWords[n]) + 1
               ELSE Len(MarkerWords[n])

RECURSIVE FindPrimary(_)
\* re.finditer of the primary pattern: group(1) of the successive matches
FindPrimary(s) ==
    IF s = <<>> THEN <<>>
    ELSE LET m == MarkerLen(s)
         IN IF m = 0 THEN FindPrimary(Tail(s))
            ELSE LET t == VersionTokenLen(Drop(s, m))
                 IN <<SubSeq(s, m + 1, m + t)>> \o FindPrimary(Drop(s, m + t))

RECURSIVE FindTokens(_)
\* re.findall of the bare version pattern
FindTokens(s) ==
    IF s = <<>> THEN <<>>
    ELSE LET t == VersionTokenLen(s)
         IN IF t = 0 THEN FindTokens(Tail(s))
            ELSE <<SubSeq(s, 1, t)>> \o FindTokens(Drop(s, t))

RECURSIVE Dedupe(_)
\* list(dict.fromkeys(seq))
Dedupe(seq) ==
    IF seq = <<>> THEN <<>>
    ELSE LET init == Dedupe(SubSeq(seq, 1, Len(seq) - 1))
         IN IF seq[Len(seq)] \in Range(init) THEN init ELSE Append(init, seq[Len(seq)])

\* os.path.splitext(name)[0] for a name without directory part
SplitextBase(name) ==
    LET dots == {i \in DOMAIN name : name[i] = "." /\ \E j \in 1..(i - 1) : name[j] # "."}
    IN IF dots = {} THEN name
       ELSE SubSeq(name, 1, (CHOOSE x \in dots : \A y \in dots : x >= y) - 1)

\* metadata.py, the end of heuristic_detect_mc_versions: the primary matches
\* without duplicates, else the bare token when there is exactly one
PickVersions(primary, tokens) ==
    IF primary # <<>> THEN Dedupe(primary)
    ELSE IF Len(tokens) = 1 THEN tokens
    ELSE <<>>

\* heuristic_detect_mc_versions
heuristic_detect_mc_versions(name) ==
    PickVersions(FindPrimary(Lower(name)), FindTokens(SplitextBase(name)))

RECURSIVE ReprItems(_)
ReprItems(seq) ==
    IF seq = <<>> THEN <<>>
    ELSE <<"'">> \o Head(seq) \o <<"'">>
         \o (IF Len(seq) > 1 THEN <<",", " ">> ELSE <<>>) \o ReprItems(Tail(seq))

\* f"{lst}" for a list of strings
ReprList(seq) == <<"[">> \o ReprItems(seq) \o <<"]">>

\* "loader" in reason.lower().  A reason is the sequence of its literal
\* fragments and of the characters of the values interpolated into it.
HasLoaderWord(reason) ==
    \/ \E i \in DOMAIN reason : reason[i] \in LoaderWords
    \/ Contains(Lower(reason), <<"l", "o", "a", "d", "e", "r">>)

\* ----------------------------------------------------------- evaluator.py
\* sorted(evidences, key=confidence, reverse=True): Python's sort is stable,
\* also with reverse=True, so equal confidences keep their input order.
RECURSIVE InsertByConfidenceUnstable(_, _)
\* mutant: an unstable sort, a later item of equal confidence goes first
InsertByConfidenceUnstable(e, sorted) ==
    IF sorted = <<>> THEN <<e>>
    ELSE IF Head(sorted).confidence > e.confidence
         THEN <<Head(sorted)>> \o InsertByConfidenceUnstable(e, Tail(sorted))
         ELSE <<e>> \o sorted

RECURSIVE InsertByConfidence(_, _)
InsertByConfidence(e, sorted) ==
    IF sorted = <<>> THEN <<e>>
    ELSE IF Head(sorted).confidence >= e.confidence
         THEN <<Head(sorted)>> \o InsertByConfidence(e, Tail(sorted))
         ELSE <<e>> \o sorted

RECURSIVE InsertAscending(_, _)
InsertAscending(e, sorted) ==
    IF sorted = <<>> THEN <<e>>
    ELSE IF Head(sorted).confidence <= e.confidence
         THEN <<Head(sorted)>> \o InsertAscending(e, Tail(sorted))
         ELSE <<e>> \o sorted

RECURSIVE SortedByConfidenceAscending(_)
\* mutant: the sort without reverse=True
SortedByConfidenceAscending(evs) ==
    IF evs = <<>> THEN <<>>
    ELSE InsertAscending(evs[Len(evs)],
                         SortedByConfidenceAscending(SubSeq(evs, 1, Len(evs) - 1)))

RECURSIVE SortedByConfidence(_)
SortedByConfidence(evs) ==
    IF evs = <<>> THEN <<>>
    ELSE InsertByConfidence(evs[Len(evs)], SortedByConfidence(SubSeq(evs, 1, Len(evs) - 1)))

\* mutant: WRONG_MC as the generic failure, the reason text is not consulted
StatusOfGeneric(best) ==
    IF best.level \in {CONFIRMED, LIKELY, POSSIBLE} THEN OK
    ELSE IF best.level = UNSUPPORTED THEN WRONG_MC ELSE STATUS_UNKNOWN

\* the level -> legacy CheckStatus mapping
StatusOf(best) ==
    IF best.level \in {CONFIRMED, LIKELY, POSSIBLE} THEN OK
    ELSE IF best.level = UNSUPPORTED
         THEN (IF HasLoaderWord(best.reason) THEN WRONG_LOADER ELSE WRONG_MC)
         ELSE STATUS_UNKNOWN

\* mutant: no guard for the empty list, sorted_evidences[0] raises IndexError
evaluate_unguarded(file_path, evidences, file_name) ==
    IF evidences = <<>>
    THEN [raised |-> TRUE,
          value |-> ModCheckResult(file_name, file_path, STATUS_UNKNOWN, <<>>,
                                   "unknown", LEVEL_UNKNOWN, <<>>),
          evidences |-> evidences]
    ELSE LET best == SortedByConfidence(evidences)[1]
         IN [raised |-> FALSE,
             value |-> ModCheckResult(file_name, file_path, StatusOf(best), best.reason,
                                      best.source, best.level, evidences),
             evidences |-> evidences]

\* mutant: evidences.sort(...) in place, the result carries the sorted list
evaluate_inplace(file_path, evidences, file_name) ==
    IF evidences = <<>>
    THEN [raised |-> FALSE,
          value |-> ModCheckResult(file_name, file_path, STATUS_UNKNOWN,
                                   <<"No evidence found">>, "unknown", LEVEL_UNKNOWN, <<>>),
          evidences |-> evidences]
    ELSE LET sorted_evidences == SortedByConfidence(evidences)
             best == sorted_evidences[1]
         IN [raised |-> FALSE,
             value |-> ModCheckResult(file_name, file_path, StatusOf(best), best.reason,
                                      best.source, best.level, sorted_evidences),
             evidences |-> sorted_evidences]

\* Evaluator.evaluate.  The value is the outcome of the call: whether it
\* raised, the ModCheckResult returned, and the contents of the caller's
\* list after the call (sorted() builds a new list and leaves it alone).
evaluate(file_path, evidences, file_name) ==
    IF evidences = <<>>
    THEN [raised |-> FALSE,
          value |-> ModCheckResult(file_name, file_path, STATUS_UNKNOWN,
                                   <<"No evidence found">>, "unknown", LEVEL_UNKNOWN, <<>>),
          evidences |-> evidences]
    ELSE LET best == SortedByConfidence(evidences)[1]
         IN [raised |-> FALSE,
             value |-> ModCheckResult(file_name, file_path, StatusOf(best), best.reason,
                                      best.source, best.level, evidences),
             evidences |-> evidences]

\* -------------------------------------------------------------- online.py
CONF_MR_FOUND == 5
\* a version match that is worth no more than a bare catalog hit
CONF_MR_MATCH_LOW == CONF_MR_FOUND
CONF_MR_MATCH == 10
CONF_CF_FOUND == 4
CONF_CF_MATCH == 8

\* OnlineVerificationStrategy._process_modrinth_evidence.  data is a catalog
\* record [is_dict, game_versions, loaders, name]; is_dict = FALSE stands for a
\* value that is not a dict, on which data.get raises.
process_modrinth_evidence(data, target_mc, expected_loader) ==
    IF ~data.is_dict THEN [raised |-> TRUE, evs |-> <<>>]
    ELSE
    LET supported_versions == data.game_versions
        loaders == data.loaders
        base == <<Evidence("modrinth", CONF_MR_FOUND, LEVEL_UNKNOWN, <<R_MR_FOUND>>)>>
        mc == IF target_mc \in Range(supported_versions)
              THEN <<Evidence("modrinth", CONF_MR_MATCH, CONFIRMED, <<R_MR_VERSION>> \o target_mc)>>
              ELSE <<>>
        ld == IF expected_loader # None
                 /\ ~AnyIn(MapLower(loaders), LOADER_COMPAT(Lower(expected_loader)))
              THEN <<Evidence("modrinth", CONF_MR_MATCH, UNSUPPORTED,
                              <<R_MR_LOADERS>> \o ReprList(loaders) \o <<", expected ">> \o expected_loader)>>
              ELSE <<>>
    IN [raised |-> FALSE, evs |-> base \o mc \o ld]

\* OnlineVerificationStrategy._process_curseforge_evidence.  data is a record
\* [is_dict, gameVersions]; an empty string among the tokens makes v[0] raise.
process_curseforge_evidence(data, target_mc, expected_loader) ==
    IF ~data.is_dict \/ <<>> \in Range(data.gameVersions)
    THEN [raised |-> TRUE, evs |-> <<>>]
    ELSE
    LET game_versions == data.gameVersions
        mc_vers == SelectSeqBy(game_versions, {v \in Range(game_versions) : FirstIsDigit(v)})
        base == <<Evidence("curseforge", CONF_CF_FOUND, LEVEL_UNKNOWN, <<R_CF_FOUND>>)>>
        mc == IF target_mc \in Range(mc_vers)
              THEN <<Evidence("curseforge", CONF_CF_MATCH, CONFIRMED, <<R_CF_VERSION>> \o target_mc)>>
              ELSE <<>>
        mod_loaders == MapLower(SelectSeqBy(game_versions,
                                            {v \in Range(game_versions) : ~FirstIsDigit(v)}))
        ld == IF expected_loader # None /\ mod_loaders # <<>>
                 /\ ~AnyIn(mod_loaders, LOADER_COMPAT(Lower(expected_loader)))
              THEN <<Evidence("curseforge", CONF_CF_MATCH, UNSUPPORTED,
                              <<R_CF_LOADERS>> \o ReprList(mod_loaders) \o <<", expected ">> \o expected_loader)>>
              ELSE <<>>
    IN [raised |-> FALSE, evs |-> base \o mc \o ld]

\* hashing.compute_sha1: open() raises for a file that cannot be read
compute_sha1(fp) ==
    IF files[fp].readable THEN [raised |-> FALSE, value |-> files[fp].sha1]
    ELSE [raised |-> TRUE, value |-> None]

\* ------------------------------------------------------ core/hashing.py
\* A 32-bit value is the pair <<hi, lo>> of its 16-bit halves, its value
\* being hi * 2^16 + lo; a byte is an integer in 0..255.
HALF == 65536

RECURSIVE XorInt(_, _)
\* a ^ b on non-negative integers
XorInt(a, b) ==
    IF a = 0 THEN b
    ELSE IF b = 0 THEN a
    ELSE 2 * XorInt(a \div 2, b \div 2) + ((a + b) % 2)

\* a ^ b on 32-bit values
WordXor(a, b) == <<XorInt(a[1], b[1]), XorInt(a[2], b[2])>>

\* a >> n, for 0 < n < 32
WordShr(a, n) ==
    IF n >= 16 THEN <<0, a[1] \div (2 ^ (n - 16))>>
    ELSE <<a[1] \div (2 ^ n), ((a[1] % (2 ^ n)) * (2 ^ (16 - n))) + (a[2] \div (2 ^ n))>>

\* h ^= h >> n
XorShr(h, n) == WordXor(h, WordShr(h, n))

\* the low 16 bits, and the bits above them, of the product of two 16-bit
\* values x and y: x * y = x * (y % 256) + 256 * (x * (y // 256))
MulLow16(x, y) == ((x * (y % 256)) + (((x * (y \div 256)) % 256) * 256)) % HALF
MulHigh16(x, y) ==
    (((x * (y % 256)) + (((x * (y \div 256)) % 256) * 256)) \div HALF) + ((x * (y \div 256)) \div 256)

\* (a * b) & 0xFFFFFFFF
WordMul(a, b) ==
    <<(MulHigh16(a[2], b[2]) + MulLow16(a[1], b[2]) + MulLow16(a[2], b[1])) % HALF,
      MulLow16(a[2], b[2])>>

\* m = 0x5bd1e995
MURMUR_M == <<23505, 59797>>

\* hashing.py 25-32: the four bytes of data from index idx, little endian,
\* mixed
MixK(data, idx) ==
    WordMul(XorShr(WordMul(<<(data[idx + 4] * 256) + data[idx + 3],
                             (data[idx + 2] * 256) + data[idx + 1]>>, MURMUR_M), 24), MURMUR_M)

\* hashing.py 34-36
MixH(h, k) == WordMul(WordXor(WordMul(h, MURMUR_M), k), MURMUR_M)

\* hashing.py 41-47: the three tests on the number of bytes left; one of
\* them at most holds, and only the last one multiplies
MurmurTail(data, idx, length, h) ==
    CASE length = 3 -> WordXor(h, <<data[idx + 3], 0>>)
      [] length = 2 -> WordXor(h, <<0, data[idx + 2] * 256>>)
      [] length = 1 -> WordMul(WordXor(h, <<0, data[idx + 1]>>), MURMUR_M)
      [] OTHER -> h

RECURSIVE MurmurLoop(_, _, _, _)
\* hashing.py 23-47: the while loop from index idx with length bytes left,
\* then the tail
MurmurLoop(data, idx, length, h) ==
    IF length >= 4 THEN MurmurLoop(data, idx + 4, length - 4, MixH(h, MixK(data, idx)))
    ELSE MurmurTail(data, idx, length, h)

\* hashing.py 18-47: h when the final mixing starts, for a seed and a length
\* below 2^16
MurmurAccumulator(data, seed) ==
    MurmurLoop(data, 0, Len(data), <<0, XorInt(seed, Len(data))>>)

\* hashing.py 49-51: the final mixing
MurmurFinal(h) == XorShr(WordMul(XorShr(h, 13), MURMUR_M), 15)

\* hashing.murmurhash2
murmurhash2(data, seed) == MurmurFinal(MurmurAccumulator(data, seed))

\* a table that deletes the vertical tab as well
DELETE_BYTES_AND_VT == {9, 10, 11, 13, 32}

\* the bytes that content.translate(None, b'\x09\x0a\x0d\x20') deletes
DELETE_BYTES == {9, 10, 13, 32}

RECURSIVE Translate(_, _)
\* bytes.translate(None, delete)
Translate(content, delete) ==
    IF content = <<>> THEN <<>>
    ELSE (IF Head(content) \in delete THEN <<>> ELSE <<Head(content)>>)
         \o Translate(Tail(content), delete)

\* hashing.py 60-64: the bytes handed to murmurhash2
Filtered(fp) == Translate(files[fp].content, DELETE_BYTES)

\* the int 0
NO_FINGERPRINT == <<0, 0>>

\* hashing.compute_curseforge_hash: every exception becomes the value 0
compute_curseforge_hash(fp) ==
    IF files[fp].readable THEN murmurhash2(Filtered(fp), 1) ELSE NO_FINGERPRINT

\* dict.get / dict[k] = v on a dict kept as a sequence of <<key, value>> pairs
\* in insertion order
DictHas(d, k) == \E i \in DOMAIN d : d[i][1] = k
DictGet(d, k) == d[CHOOSE i \in DOMAIN d : d[i][1] = k][2]
DictPut(d, k, v) ==
    IF DictHas(d, k) THEN [i \in DOMAIN d |-> IF d[i][1] = k THEN <<k, v>> ELSE d[i]]
    ELSE Append(d, <<k, v>>)
DictKeys(d) == [i \in DOMAIN d |-> d[i][1]]

\* ModrinthClient.get_versions_by_hashes as the strategy sees it: the catalog
\* entries of the requested hashes, or an exception
get_versions_by_hashes(hashes) ==
    IF modrinth.raises THEN [raised |-> TRUE, value |-> <<>>]
    ELSE [raised |-> FALSE,
          value |-> SelectSeqBy(modrinth.items,
                                {it \in Range(modrinth.items) : it[1] \in Range(hashes)})]

\* CurseForgeClient.get_fingerprint_matches as the strategy sees it
get_fingerprint_matches(fingerprints) ==
    IF curseforge.raises THEN [raised |-> TRUE, value |-> <<>>]
    ELSE [raised |-> FALSE,
          value |-> SelectSeqBy(curseforge.items,
                                {it \in Range(curseforge.items) : it[1] \in Range(fingerprints)})]

RECURSIVE Sha1Map(_, _)
\* online.py 21-24: sha1_map[s] = fp for every path; compute_sha1 is outside
\* every try block, so its exception leaves the method
Sha1Map(file_paths, acc) ==
    IF file_paths = <<>> THEN [raised |-> FALSE, map |-> acc]
    ELSE LET s == compute_sha1(Head(file_paths))
         IN IF s.raised THEN [raised |-> TRUE, map |-> acc]
            ELSE Sha1Map(Tail(file_paths), DictPut(acc, s.value, Head(file_paths)))

RECURSIVE ModrinthLoop(_, _, _, _, _)
\* online.py 32-37: the loop over mr_results.items(); an exception in
\* _process_modrinth_evidence ends the loop (the try block encloses it)
ModrinthLoop(items, sha1_map, target_mc, expected_loader, st) ==
    IF items = <<>> THEN st
    ELSE LET h == Head(items)[1]
             version_data == Head(items)[2]
         IN IF ~DictHas(sha1_map, h)
            THEN ModrinthLoop(Tail(items), sha1_map, target_mc, expected_loader, st)
            ELSE LET fp == DictGet(sha1_map, h)
                     found == st.found_in_mr \cup {fp}
                     p == process_modrinth_evidence(version_data, target_mc, expected_loader)
                 IN IF p.raised THEN [st EXCEPT !.found_in_mr = found]
                    ELSE ModrinthLoop(Tail(items), sha1_map, target_mc, expected_loader,
                                      [st EXCEPT !.found_in_mr = found,
                                                 !.results[fp] = @ \o p.evs])

RECURSIVE FingerprintMap(_, _)
\* online.py 47-51
FingerprintMap(remaining_paths, acc) ==
    IF remaining_paths = <<>> THEN acc
    ELSE LET f == compute_curseforge_hash(Head(remaining_paths))
         IN FingerprintMap(Tail(remaining_paths),
                           IF f # NO_FINGERPRINT THEN DictPut(acc, f, Head(remaining_paths)) ELSE acc)

RECURSIVE CurseforgeLoop(_, _, _, _, _)
\* online.py 56-60
CurseforgeLoop(items, fp_map, target_mc, expected_loader, results) ==
    IF items = <<>> THEN results
    ELSE LET fid == Head(items)[1]
             match_data == Head(items)[2]
         IN IF ~DictHas(fp_map, fid)
            THEN CurseforgeLoop(Tail(items), fp_map, target_mc, expected_loader, results)
            ELSE LET fp == DictGet(fp_map, fid)
                     p == process_curseforge_evidence(match_data, target_mc, expected_loader)
                 IN IF p.raised THEN results
                    ELSE CurseforgeLoop(Tail(items), fp_map, target_mc, expected_loader,
                                        [results EXCEPT ![fp] = @ \o p.evs])

\* OnlineVerificationStrategy.batch_collect_evidence.  has_cf: a CurseForge
\* client is configured (self.cf is not None).  The value is the returned
\* dict together with the catalog calls made, or the exception.
batch_collect_evidence(file_paths, target_mc, expected_loader, has_cf) ==
    LET results0 == [fp \in Range(file_paths) |-> <<>>]
        sm == Sha1Map(file_paths, <<>>)
        hashes == DictKeys(sm.map)
        mr == get_versions_by_hashes(hashes)
        st0 == [results |-> results0, found_in_mr |-> {}]
        st1 == IF hashes # <<>> /\ ~mr.raised
               THEN ModrinthLoop(mr.value, sm.map, target_mc, expected_loader, st0)
               ELSE st0
        remaining_paths == SelectSeqBy(file_paths, Range(file_paths) \ st1.found_in_mr)
        fp_map == FingerprintMap(remaining_paths, <<>>)
        fingerprints == DictKeys(fp_map)
        ask_cf == has_cf /\ remaining_paths # <<>> /\ fingerprints # <<>>
        cf == get_fingerprint_matches(fingerprints)
        results2 == IF ask_cf /\ ~cf.raised
                    THEN CurseforgeLoop(cf.value, fp_map, target_mc, expected_loader, st1.results)
                    ELSE st1.results
    IN IF sm.raised
       THEN [raised |-> TRUE, results |-> results0, found_in_mr |-> {},
             mr_calls |-> <<>>, cf_calls |-> <<>>]
       ELSE [raised |-> FALSE, results |-> results2, found_in_mr |-> st1.found_in_mr,
             mr_calls |-> IF hashes # <<>> THEN <<hashes>> ELSE <<>>,
             cf_calls |-> IF ask_cf THEN <<fingerprints>> ELSE <<>>]

\* --------------------------------------------------------------- local.py
CONF_HEURISTIC == 3
\* descriptor evidence that weighs less than filename evidence
CONF_LOCAL_LOW == CONF_HEURISTIC - 1
CONF_LOCAL == 6

NoEvidence == [raised |-> FALSE, evs |-> <<>>]
OneEvidence(e) == [raised |-> FALSE, evs |-> <<e>>]
Raised == [raised |-> TRUE, evs |-> <<>>]

RECURSIVE NormalizeItems(_)
\* local.py 114-121: the strings of a list-valued dependency, dict items
\* giving their "version" when it is truthy
NormalizeItems(items) ==
    IF items = <<>> THEN <<>>
    ELSE (IF Head(items).kind = "str" THEN <<Head(items).s>>
          ELSE IF Head(items).kind = "dict" /\ Head(items).s # NoText THEN <<Head(items).s>>
          ELSE <<>>) \o NormalizeItems(Tail(items))

\* local.py 108-121.  mc_dep is [kind, s, items] with kind "str" (the string
\* s), "dict" (s its "version", NoText when absent) or "list".
NormalizeMcDep(mc_dep) ==
    CASE mc_dep.kind = "str" -> <<mc_dep.s>>
      [] mc_dep.kind = "dict" -> (IF mc_dep.s # NoText THEN <<mc_dep.s>> ELSE <<>>)
      [] mc_dep.kind = "list" -> NormalizeItems(mc_dep.items)

RECURSIVE FirstMatch(_, _)
\* local.py 124-131: the index of the first constraint that contains the
\* target, 0 when none does
FirstMatch(mc_dep, target_mc) ==
    IF mc_dep = <<>> THEN 0
    ELSE IF RangeContains(VersionRange(Head(mc_dep)), target_mc, FALSE) THEN 1
    ELSE LET r == FirstMatch(Tail(mc_dep), target_mc) IN IF r = 0 THEN 0 ELSE r + 1

RECURSIVE FlattenTexts(_)
FlattenTexts(seq) == IF seq = <<>> THEN <<>> ELSE Head(seq) \o FlattenTexts(Tail(seq))

\* local.py 124-146: hit is the index of the first matching constraint of
\* mc_dep, 0 when none matches
FabricVerdict(mc_dep, hit) ==
    IF hit # 0
    THEN OneEvidence(Evidence("local_metadata", CONF_LOCAL, POSSIBLE,
                              <<"Fabric metadata matches: ">> \o ReprList(SubSeq(mc_dep, 1, hit))))
    ELSE OneEvidence(Evidence("local_metadata", CONF_LOCAL, UNSUPPORTED,
                              <<"Fabric metadata requires: ">> \o ReprList(mc_dep)))

\* local.py 123-146: the normalized constraint list against the target
FabricMatch(mc_dep, target_mc) == FabricVerdict(mc_dep, FirstMatch(mc_dep, target_mc))

\* LocalVerificationStrategy._collect_fabric_evidence.  meta is the parsed
\* descriptor [json_ok, is_dict, mc_dep]: json.loads succeeded, its value is
\* a dict, and depends["minecraft"] (kind "none" when it is missing or falsy,
\* or when "depends" is not a dict).
collect_fabric_evidence(meta, target_mc, expected_loader) ==
    IF ~meta.json_ok THEN NoEvidence
    ELSE IF expected_loader # None /\ Lower(expected_loader) \notin {FABRIC, QUILT}
    THEN OneEvidence(Evidence("local_metadata", CONF_LOCAL, UNSUPPORTED,
                              <<"Found Fabric mod, expected ">> \o expected_loader))
    ELSE IF ~meta.is_dict THEN Raised
    ELSE IF meta.mc_dep.kind = "none"
    THEN OneEvidence(Evidence("local_metadata", CONF_LOCAL, POSSIBLE,
                              <<"Fabric: No explicit MC dependency">>))
    ELSE FabricMatch(NormalizeMcDep(meta.mc_dep), target_mc)

\* the body shared by _collect_forge_evidence and _collect_neoforge_evidence
TomlEvidence(family, toml_text, target_mc, expected_loader) ==
    IF expected_loader # None /\ Lower(expected_loader) \notin {FORGE, NEOFORGE}
    THEN OneEvidence(Evidence("local_metadata", CONF_LOCAL, UNSUPPORTED,
                              <<"Found ", family, " mod, expected ">> \o expected_loader))
    ELSE LET mc_range_str == extract_minecraft_version_range_from_toml(toml_text)
         IN IF mc_range_str # NoText
            THEN IF RangeContains(VersionRange(mc_range_str), target_mc, FALSE)
                 THEN OneEvidence(Evidence("local_metadata", CONF_LOCAL, POSSIBLE,
                                           <<family, " metadata matches: ">> \o mc_range_str))
                 ELSE OneEvidence(Evidence("local_metadata", CONF_LOCAL, UNSUPPORTED,
                                           <<family, " metadata requires: ">> \o mc_range_str))
            ELSE OneEvidence(Evidence("local_metadata", CONF_LOCAL, LEVEL_UNKNOWN,
                                      <<family, ": No MC range found">>))

\* LocalVerificationStrategy._collect_forge_evidence
collect_forge_evidence(toml_text, target_mc, expected_loader) ==
    TomlEvidence("Forge", toml_text, target_mc, expected_loader)

\* LocalVerificationStrategy._collect_neoforge_evidence
collect_neoforge_evidence(toml_text, target_mc, expected_loader) ==
    TomlEvidence("NeoForge", toml_text, target_mc, expected_loader)

\* LocalVerificationStrategy._collect_quilt_evidence.  meta is
\* [json_ok, is_dict, versions]: versions is the "versions" value of the
\* first dependency with id "minecraft", as [kind, s] with kind "none"
\* (missing or falsy), "str" or "other" (a truthy value that is no string).
collect_quilt_evidence(meta, target_mc, expected_loader) ==
    IF ~meta.json_ok THEN NoEvidence
    ELSE IF expected_loader # None /\ Lower(expected_loader) \notin {QUILT, FABRIC}
    THEN OneEvidence(Evidence("local_metadata", CONF_LOCAL, UNSUPPORTED,
                              <<"Found Quilt mod, expected ">> \o expected_loader))
    ELSE IF ~meta.is_dict THEN Raised
    ELSE IF meta.versions.kind = "str"
    THEN IF RangeContains(VersionRange(meta.versions.s), target_mc, FALSE)
         THEN OneEvidence(Evidence("local_metadata", CONF_LOCAL, POSSIBLE,
                                   <<"Quilt metadata matches: ">> \o meta.versions.s))
         ELSE OneEvidence(Evidence("local_metadata", CONF_LOCAL, UNSUPPORTED,
                                   <<"Quilt metadata requires: ">> \o meta.versions.s))
    ELSE IF meta.versions.kind = "other" THEN NoEvidence
    ELSE OneEvidence(Evidence("local_metadata", CONF_LOCAL, POSSIBLE,
                              <<"Quilt: No MC dependency">>))

\* local.py 294-303: some detected version equals the target or, in relaxed
\* mode, one is a prefix of the other
HeuristicMatched(det_versions, target_mc, relaxed) ==
    \E i \in DOMAIN det_versions :
        \/ det_versions[i] = target_mc
        \/ relaxed /\ (StartsWith(target_mc, det_versions[i])
                       \/ StartsWith(det_versions[i], target_mc))

\* local.py 281-291: the loader evidence of the heuristic
HeuristicLoaderEvidence(det_loader, expected_loader) ==
    IF expected_loader # None /\ det_loader # NoText
       /\ Lower(det_loader) \notin LOADER_COMPAT(Lower(expected_loader))
    THEN <<Evidence("heuristic", CONF_HEURISTIC, UNSUPPORTED,
                    <<"Filename suggests ">> \o det_loader
                    \o <<", expected ">> \o expected_loader)>>
    ELSE <<>>

\* local.py 293-319: the version evidence of the heuristic
HeuristicVersionEvidence(det_versions, target_mc, relaxed) ==
    IF det_versions = <<>> THEN <<>>
    ELSE IF HeuristicMatched(det_versions, target_mc, relaxed)
    THEN <<Evidence("heuristic", CONF_HEURISTIC, LIKELY,
                    <<"Filename contains version ">> \o ReprList(det_versions))>>
    ELSE <<Evidence("heuristic", CONF_HEURISTIC, UNSUPPORTED,
                    <<"Filename contains ">> \o ReprList(det_versions)
                    \o <<", expected ">> \o target_mc)>>

\* LocalVerificationStrategy._collect_heuristic_evidence
collect_heuristic_evidence(file_name, target_mc, expected_loader, relaxed) ==
    HeuristicLoaderEvidence(heuristic_detect_loader(file_name), expected_loader)
    \o HeuristicVersionEvidence(heuristic_detect_mc_versions(file_name), target_mc, relaxed)

RECURSIVE FamilyChain(_, _)
\* local.py 21-44: the descriptor families in order inside one try block; an
\* exception in one family skips the families after it and keeps the
\* evidence gathered before it
FamilyChain(steps, acc) ==
    IF steps = <<>> THEN acc
    ELSE IF Head(steps).raised THEN acc
    ELSE FamilyChain(Tail(steps), acc \o Head(steps).evs)

\* LocalVerificationStrategy.collect_evidence.  files[fp].archive is
\* [is_zip, fabric, forge, neoforge, quilt]; each entry has a field present
\* (read_zip_text gave a non-empty text).
Local_collect_evidence(file_path, target_mc, expected_loader, relaxed) ==
    LET file_name == Basename(file_path)
        z == files[file_path].archive
        steps == <<IF z.fabric.present
                   THEN collect_fabric_evidence(z.fabric, target_mc, expected_loader)
                   ELSE NoEvidence,
                   IF z.forge.present
                   THEN collect_forge_evidence(z.forge.lines, target_mc, expected_loader)
                   ELSE NoEvidence,
                   IF z.neoforge.present
                   THEN collect_neoforge_evidence(z.neoforge.lines, target_mc, expected_loader)
                   ELSE NoEvidence,
                   IF z.quilt.present
                   THEN collect_quilt_evidence(z.quilt, target_mc, expected_loader)
                   ELSE NoEvidence>>
        from_zip == IF files[file_path].readable /\ z.is_zip
                    THEN FamilyChain(steps, <<>>)
                    ELSE <<>>
    IN from_zip \o collect_heuristic_evidence(file_name, target_mc, expected_loader, relaxed)

\* the tail shared by OnlineVerificationStrategy.verify and
\* LocalVerificationStrategy.verify: None for no evidence, else the result
\* built from the evidence of highest confidence
VerifyResult(file_path, evidences) ==
    IF evidences = <<>> THEN [none |-> TRUE, res |-> None]
    ELSE LET best == SortedByConfidence(evidences)[1]
         IN [none |-> FALSE,
             res |-> ModCheckResult(Basename(file_path), file_path, StatusOf(best),
                                    best.reason, best.source, best.level, evidences)]

\* ---------------------------------------------------------------- base.py
\* a configured strategy: [kind, has_cf], kind "online" or "local"
STRAT_ONLINE == [kind |-> "online", has_cf |-> FALSE]
STRAT_ONLINE_CF == [kind |-> "online", has_cf |-> TRUE]
STRAT_LOCAL == [kind |-> "local", has_cf |-> FALSE]

\* what verify hands to batch_verify: the result (or None) and the catalog
\* calls made on the way
VerifyOutcome(v, calls_mr, calls_cf) ==
    [raised |-> FALSE, none |-> v.none, res |-> v.res,
     mr_calls |-> calls_mr, cf_calls |-> calls_cf]

\* OnlineVerificationStrategy.verify after collect_evidence: b is what
\* batch_collect_evidence([file_path]) gave
OnlineOutcome(file_path, b) ==
    IF b.raised
    THEN [raised |-> TRUE, none |-> TRUE, res |-> None, mr_calls |-> <<>>, cf_calls |-> <<>>]
    ELSE VerifyOutcome(VerifyResult(file_path, b.results[file_path]), b.mr_calls, b.cf_calls)

\* OnlineVerificationStrategy.verify, through collect_evidence, which asks
\* batch_collect_evidence for the one-element batch [file_path]
Online_verify(strategy, file_path, target_mc, expected_loader) ==
    OnlineOutcome(file_path,
                  batch_collect_evidence(<<file_path>>, target_mc, expected_loader,
                                         strategy.has_cf))

\* LocalVerificationStrategy.verify
Local_verify(file_path, target_mc, expected_loader, relaxed) ==
    VerifyOutcome(VerifyResult(file_path,
                               Local_collect_evidence(file_path, target_mc, expected_loader,
                                                      relaxed)),
                  <<>>, <<>>)

\* strategy.verify, dispatched on the strategy's class
verify(strategy, file_path, target_mc, expected_loader, relaxed) ==
    IF strategy.kind = "online"
    THEN Online_verify(strategy, file_path, target_mc, expected_loader)
    ELSE Local_verify(file_path, target_mc, expected_loader, relaxed)

RECURSIVE BatchVerifyLoop(_, _, _, _, _, _)
RECURSIVE BatchVerifyStep(_, _, _, _, _, _, _)
\* base.py 15-25, one iteration: v is what verify gave for the head of
\* file_paths; an exception leaves the loop
BatchVerifyStep(strategy, file_paths, target_mc, expected_loader, relaxed, acc, v) ==
    IF v.raised THEN [acc EXCEPT !.raised = TRUE]
    ELSE BatchVerifyLoop(strategy, Tail(file_paths), target_mc, expected_loader, relaxed,
            [acc EXCEPT !.results = IF v.none THEN @ ELSE DictPut(@, Head(file_paths), v.res),
                        !.verified = Append(@, Head(file_paths)),
                        !.mr_calls = @ \o v.mr_calls,
                        !.cf_calls = @ \o v.cf_calls])

\* base.py 15-25: the loop over file_paths
BatchVerifyLoop(strategy, file_paths, target_mc, expected_loader, relaxed, acc) ==
    IF file_paths = <<>> THEN acc
    ELSE BatchVerifyStep(strategy, file_paths, target_mc, expected_loader, relaxed, acc,
                         verify(strategy, Head(file_paths), target_mc, expected_loader, relaxed))

\* VerificationStrategy.batch_verify (neither strategy overrides it): verify
\* in a loop; the dict of the results that are not None
batch_verify(strategy, file_paths, target_mc, expected_loader, relaxed) ==
    BatchVerifyLoop(strategy, file_paths, target_mc, expected_loader, relaxed,
                    [raised |-> FALSE, results |-> <<>>, verified |-> <<>>,
                     mr_calls |-> <<>>, cf_calls |-> <<>>])

\* ------------------------------------------------------------ pipeline.py
RECURSIVE AcceptResults(_, _)
\* pipeline.py 32-40: the results whose status is not UNKNOWN, in dict order
AcceptResults(results, acc) ==
    IF results = <<>> THEN acc
    ELSE AcceptResults(Tail(results),
                       IF Head(results)[2].status # STATUS_UNKNOWN
                       THEN DictPut(acc, Head(results)[1], Head(results)[2])
                       ELSE acc)

\* mutant: a path without evidence is reported as a version mismatch
UnknownResultNegative(fp) ==
    ModCheckResult(Basename(fp), fp, WRONG_MC, <<"all_strategies_failed">>,
                   "unknown", UNSUPPORTED, <<>>)

\* pipeline.py 45-50: the result appended for a path left pending
UnknownResult(fp) ==
    ModCheckResult(Basename(fp), fp, STATUS_UNKNOWN, <<"all_strategies_failed">>,
                   "unknown", LEVEL_UNKNOWN, <<>>)

\* the orders in which a set can be iterated
Orderings(S) ==
    {q \in [1..Cardinality(S) -> S] : \A i, j \in 1..Cardinality(S) : i # j => q[i] # q[j]}

\* ------------------------------------------------------ inputs and worlds
\* longest file_paths list handed to check_files / batch_collect_evidence
MaxPaths == 2

V_1_20_1 == <<"1", ".", "2", "0", ".", "1">>
V_1_19_2 == <<"1", ".", "1", "9", ".", "2">>
V_1_19_4 == <<"1", ".", "1", "9", ".", "4">>

\* two paths: a name without loader keyword or version token, and a name
\* with both
P_ALPHA == <<"mods", <<"a", "l", "p", "h", "a", ".", "j", "a", "r">>>>
P_BETA == <<"mods", <<"b", "e", "t", "a", "-", "f", "o", "r", "g", "e", "-", "1", ".", "1", "9", ".", "2", ".", "j", "a", "r">>>>
Paths == {P_ALPHA, P_BETA}

NoDep == [kind |-> "none", s |-> NoText, items |-> <<>>]
NoJson == [present |-> FALSE, json_ok |-> FALSE, is_dict |-> FALSE, mc_dep |-> NoDep]
NoQuilt == [present |-> FALSE, json_ok |-> FALSE, is_dict |-> FALSE,
            versions |-> [kind |-> "none", s |-> NoText]]
NoToml == [present |-> FALSE, lines |-> <<>>]
NotZip == [is_zip |-> FALSE, fabric |-> NoJson, forge |-> NoToml,
           neoforge |-> NoToml, quilt |-> NoQuilt]

\* the bytes of three files ("plain", and "PK" 3 4 followed by a letter or
\* two), and the fingerprints catalog B holds for the first two
CONTENT_PLAIN == <<112, 108, 97, 105, 110>>
CONTENT_FABRIC == <<80, 75, 3, 4, 102>>
CONTENT_FORGE == <<80, 75, 3, 4, 70, 79>>
FP_PLAIN == murmurhash2(CONTENT_PLAIN, 1)
FP_FABRIC == murmurhash2(CONTENT_FABRIC, 1)

\* a path at which no file can be opened
F_MISSING == [readable |-> FALSE, sha1 |-> "", content |-> <<>>, archive |-> NotZip]
\* a readable file that is no archive
F_PLAIN == [readable |-> TRUE, sha1 |-> "sha-plain", content |-> CONTENT_PLAIN, archive |-> NotZip]
\* an archive with fabric.mod.json, depends.minecraft = ">=1.20"
F_FABRIC == [readable |-> TRUE, sha1 |-> "sha-fabric", content |-> CONTENT_FABRIC,
             archive |-> [NotZip EXCEPT !.is_zip = TRUE,
                 !.fabric = [present |-> TRUE, json_ok |-> TRUE, is_dict |-> TRUE,
                             mc_dep |-> [kind |-> "str", s |-> <<">", "=", "1", ".", "2", "0">>, items |-> <<>>]]]]
\* an archive with META-INF/mods.toml, minecraft versionRange = "[1.19,1.20)"
F_FORGE == [readable |-> TRUE, sha1 |-> "sha-forge", content |-> CONTENT_FORGE,
            archive |-> [NotZip EXCEPT !.is_zip = TRUE,
                !.forge = [present |-> TRUE,
                           lines |-> <<[mc_modid |-> TRUE, has_range |-> FALSE, range_text |-> NoText],
                                       [mc_modid |-> FALSE, has_range |-> TRUE,
                                        range_text |-> <<"[", "1", ".", "1", "9", ",", "1", ".", "2", "0", ")">>]>>]]]

\* the file system with content a at P_ALPHA and content b at P_BETA
FileSystem(a, b) == [fp \in Paths |-> IF fp = P_ALPHA THEN a ELSE b]

\* catalog A records
MR_FABRIC_1_20_1 == [is_dict |-> TRUE, game_versions |-> <<V_1_20_1>>, loaders |-> <<FABRIC>>,
                     name |-> "Test Mod"]
MR_FORGE_1_19_2 == [is_dict |-> TRUE, game_versions |-> <<V_1_19_2>>, loaders |-> <<FORGE>>,
                    name |-> "Forge Mod"]
MR_NOT_A_DICT == [is_dict |-> FALSE, game_versions |-> <<>>, loaders |-> <<>>, name |-> ""]

\* catalog B records
CF_FABRIC_1_20_1 == [is_dict |-> TRUE, gameVersions |-> <<V_1_20_1, <<"F", "a", "b", "r", "i", "c">>>>]
CF_EMPTY_TOKEN == [is_dict |-> TRUE, gameVersions |-> <<V_1_20_1, <<>>>>]

MR_RAISES == [raises |-> TRUE, items |-> <<>>]
MR_EMPTY == [raises |-> FALSE, items |-> <<>>]
CF_RAISES == [raises |-> TRUE, items |-> <<>>]
CF_EMPTY == [raises |-> FALSE, items |-> <<>>]
CF_BOTH == [raises |-> FALSE, items |-> <<<<FP_PLAIN, CF_FABRIC_1_20_1>>, <<FP_FABRIC, CF_FABRIC_1_20_1>>>>]

MR_PLAIN == [raises |-> FALSE, items |-> <<<<"sha-plain", MR_FABRIC_1_20_1>>>>]
MR_BAD_PLAIN == [raises |-> FALSE,
                 items |-> <<<<"sha-plain", MR_NOT_A_DICT>>, <<"sha-fabric", MR_FORGE_1_19_2>>>>]
MR_BOTH == [raises |-> FALSE,
            items |-> <<<<"sha-fabric", MR_FORGE_1_19_2>>, <<"sha-plain", MR_FABRIC_1_20_1>>>>]
CF_BAD_PLAIN == [raises |-> FALSE,
                 items |-> <<<<FP_PLAIN, CF_EMPTY_TOKEN>>, <<FP_FABRIC, CF_FABRIC_1_20_1>>>>]

World(a, b, mr, cf) == [files |-> FileSystem(a, b), modrinth |-> mr, curseforge |-> cf]

\* the file systems and catalog states the calls run against
Worlds ==
    {World(F_PLAIN, F_FABRIC, MR_BOTH, CF_BOTH),
     World(F_PLAIN, F_FABRIC, MR_BAD_PLAIN, CF_EMPTY),
     World(F_PLAIN, F_FABRIC, MR_EMPTY, CF_BAD_PLAIN),
     World(F_PLAIN, F_FABRIC, MR_RAISES, CF_BOTH),
     World(F_PLAIN, F_FABRIC, MR_EMPTY, CF_EMPTY),
     World(F_PLAIN, F_FORGE, MR_PLAIN, CF_RAISES),
     World(F_PLAIN, F_FORGE, MR_EMPTY, CF_EMPTY),
     World(F_FABRIC, F_FORGE, MR_EMPTY, CF_BOTH),
     World(F_PLAIN, F_PLAIN, MR_PLAIN, CF_RAISES),
     World(F_PLAIN, F_FABRIC, MR_PLAIN, CF_BOTH),
     World(F_MISSING, F_FABRIC, MR_BOTH, CF_BOTH),
     World(F_PLAIN, F_MISSING, MR_EMPTY, CF_EMPTY),
     World(F_MISSING, F_MISSING, MR_EMPTY, CF_EMPTY)}

Targets == {V_1_20_1, V_1_19_4}
ExpectedLoaders == {None, FABRIC, FORGE}
RelaxedModes == BOOLEAN
StrategyLists == {<<STRAT_ONLINE>>, <<STRAT_LOCAL>>, <<STRAT_ONLINE, STRAT_LOCAL>>,
                  <<STRAT_ONLINE_CF, STRAT_LOCAL>>, <<STRAT_LOCAL, STRAT_ONLINE>>}

\* the lists of at most n elements of S
ListsUpTo(S, n) == UNION {[1..k -> S] : k \in 0..n}

PathLists == ListsUpTo(Paths, MaxPaths)

\* evidence items as the strategies produce them
EvidencePool ==
    {Evidence("modrinth", CONF_MR_FOUND, LEVEL_UNKNOWN, <<R_MR_FOUND>>),
     Evidence("modrinth", CONF_MR_MATCH, CONFIRMED, <<R_MR_VERSION>> \o V_1_20_1),
     Evidence("modrinth", CONF_MR_MATCH, UNSUPPORTED,
              <<R_MR_LOADERS>> \o ReprList(<<FORGE>>) \o <<", expected ">> \o FABRIC),
     Evidence("curseforge", CONF_CF_MATCH, CONFIRMED, <<R_CF_VERSION>> \o V_1_20_1),
     Evidence("local_metadata", CONF_LOCAL, POSSIBLE, <<"Fabric: No explicit MC dependency">>),
     Evidence("local_metadata", CONF_LOCAL, UNSUPPORTED,
              <<"Forge", " metadata requires: ">> \o <<"[", "1", ".", "1", "9", ",", "1", ".", "2", "0", ")">>),
     Evidence("heuristic", CONF_HEURISTIC, LIKELY,
              <<"Filename contains version ">> \o ReprList(<<V_1_20_1>>))}

EvidenceLists == ListsUpTo(EvidencePool, MaxEvidence)

\* ------------------------------------------- constraint and version texts
\* constraint expressions as descriptors carry them
RANGE_EMPTY == <<>>
RANGE_BLANK == <<" ">>
RANGE_WORD == <<"a", "b", "c">>
RANGE_TILDE == <<"~", "1", ".", "2", "0">>
RANGE_STAR == <<"*">>
RANGE_WILD_1_20 == <<"1", ".", "2", "0", ".", "x">>
RANGE_WILD_1_16 == <<"1", ".", "1", "6", ".", "x">>
RANGE_WILD_1 == <<"1", ".", "x">>
RANGE_CLOSED_OPEN == <<"[", "1", ".", "1", "6", ".", "5", ",", "1", ".", "1", "7", ")">>
RANGE_OPEN_CLOSED == <<"(", "1", ".", "1", "6", ".", "5", ",", "1", ".", "1", "7", "]">>
RANGE_CLOSED_CLOSED == <<"[", "1", ".", "1", "6", ".", "5", ",", " ", "1", ".", "1", "7", "]">>
RANGE_OPEN_OPEN == <<"(", "1", ".", "1", "6", ".", "5", ",", "1", ".", "1", "7", ")">>
RANGE_NO_LOWER == <<"(", ",", "1", ".", "1", "7", "]">>
RANGE_NO_UPPER == <<"[", "1", ".", "1", "6", ".", "5", ",", ")">>
RANGE_SINGLE_CLOSED == <<"[", "1", ".", "1", "7", "]">>
RANGE_SINGLE_OPEN == <<"(", "1", ".", "1", "7", ")">>
RANGE_GE_1_20 == <<">", "=", "1", ".", "2", "0">>
RANGE_LT_1_21 == <<"<", "1", ".", "2", "1">>
RANGE_LT_1_19 == <<"<", "1", ".", "1", "9">>
RANGE_EXACT_1_20_1 == <<"1", ".", "2", "0", ".", "1">>
RANGE_EXACT_1_17 == <<"1", ".", "1", "7">>

RangeExprs ==
    {RANGE_EMPTY, RANGE_BLANK, RANGE_WORD, RANGE_TILDE, RANGE_STAR, RANGE_WILD_1_20,
     RANGE_WILD_1_16, RANGE_WILD_1, RANGE_CLOSED_OPEN, RANGE_OPEN_CLOSED, RANGE_CLOSED_CLOSED,
     RANGE_OPEN_OPEN, RANGE_NO_LOWER, RANGE_NO_UPPER, RANGE_SINGLE_CLOSED, RANGE_SINGLE_OPEN,
     RANGE_GE_1_20, RANGE_LT_1_21, RANGE_LT_1_19, RANGE_EXACT_1_20_1, RANGE_EXACT_1_17}

\* version strings
V_0_0_0 == <<"0", ".", "0", ".", "0">>
V_1_0_0 == <<"1", ".", "0", ".", "0">>
V_1_5_2 == <<"1", ".", "5", ".", "2">>
V_1_16_4 == <<"1", ".", "1", "6", ".", "4">>
V_1_16_5 == <<"1", ".", "1", "6", ".", "5">>
V_1_16_9 == <<"1", ".", "1", "6", ".", "9">>
V_1_17 == <<"1", ".", "1", "7">>
V_1_17_0 == <<"1", ".", "1", "7", ".", "0">>
V_1_17_1 == <<"1", ".", "1", "7", ".", "1">>
V_1_19_9 == <<"1", ".", "1", "9", ".", "9">>
V_1_20 == <<"1", ".", "2", "0">>
V_1_20_0 == <<"1", ".", "2", "0", ".", "0">>
V_1_20_99 == <<"1", ".", "2", "0", ".", "9", "9">>
V_1_21 == <<"1", ".", "2", "1">>
V_1_22 == <<"1", ".", "2", "2">>
V_2_0 == <<"2", ".", "0">>
V_PREFIXED_1_20_1 == <<"v", "1", ".", "2", "0", ".", "1">>
V_1_20_1_RC1 == <<"1", ".", "2", "0", ".", "1", "-", "r", "c", "1">>

VersionTexts ==
    {V_1_20_1, V_0_0_0, V_1_0_0, V_1_5_2, V_1_16_4, V_1_16_5, V_1_16_9, V_1_17, V_1_17_0, V_1_17_1,
     V_1_19_9, V_1_20, V_1_20_0, V_1_20_99, V_1_21, V_1_22, V_2_0, V_PREFIXED_1_20_1,
     V_1_20_1_RC1}

\* the versions compared with each other
CompareTexts ==
    {V_1_16_5, V_1_17, V_1_17_0, V_1_17_1, V_1_20, V_1_20_1, V_PREFIXED_1_20_1, V_1_20_1_RC1}

\* the strings of a "minecraft" dependency list of fabric.mod.json
MaxConstraints == 2
ConstraintExprs ==
    {RANGE_GE_1_20, RANGE_LT_1_21, RANGE_EXACT_1_20_1, RANGE_EXACT_1_17, RANGE_WILD_1_20,
     RANGE_WORD, RANGE_EMPTY, RANGE_STAR}
DependencyLists == ListsUpTo(ConstraintExprs, MaxConstraints)
FabricTargets == {V_1_20_1, V_1_17, V_1_22}

\* ----------------------------------------------------------- file bytes
\* the four bytes the fingerprint ignores, the vertical tab and a letter
Bytes == {9, 10, 13, 32, 11, 65}
MaxContent == 2

\* "plain" with each of the four bytes inserted, and with a vertical tab
CONTENT_SPACED == <<112, 32, 108, 9, 97, 10, 105, 13, 110>>
CONTENT_PLAIN_VT == <<112, 11, 108, 97, 105, 110>>

HashContents == ListsUpTo(Bytes, MaxContent) \cup {CONTENT_PLAIN, CONTENT_SPACED, CONTENT_PLAIN_VT}
ReferenceContents == {<<>>, <<65>>, <<11>>, <<65, 11>>, CONTENT_PLAIN}

\* a readable file with the bytes content
HashFile(content) == [readable |-> TRUE, sha1 |-> "", content |-> content, archive |-> NotZip]

\* ------------------------------------------------------- murmurhash2 data
\* whole 4-byte words in front of the tail, and the bytes of a tail
WordPrefixes == {<<>>, <<80, 75, 3, 4>>, <<255, 255, 255, 255, 255, 255, 255, 255>>}
TailBytes == {0, 65, 255}
Tails == UNION {[1..k -> TailBytes] : k \in 1..3}

NoCall == [op |-> "none", file_paths |-> <<>>, strategies |-> <<>>, target_mc |-> <<>>,
           expected_loader |-> None, relaxed |-> FALSE, has_cf |-> FALSE, evidences |-> <<>>,
           range_str |-> <<>>, version |-> <<>>, versions |-> <<>>, mc_dep |-> <<>>,
           data |-> <<>>, changed |-> <<>>]
NoRet == [raised |-> FALSE, value |-> <<>>]
\* ModCheckerGUI before a check: stopped_at is the number of catalog requests
\* and of results at the moment stop_event was set (empty while it is not set);
\* data holds the entries cache_mgr.set wrote in this run, saved what
\* cache_mgr.save wrote to the file
NoRun == [is_running |-> FALSE, stop_event |-> FALSE, stopped_at |-> <<>>, finished |-> 0,
          jars |-> <<>>, cf_client |-> FALSE, cache_mgr |-> FALSE, cached |-> {},
          hashed |-> {}, file_infos |-> <<>>, missing_in_cache |-> <<>>,
          still_missing |-> <<>>, final_missing_for_cf |-> <<>>, idx |-> 1,
          mr_results |-> {}, cf_results |-> {}, requests |-> <<>>,
          results_data |-> <<>>, data |-> <<>>, saved |-> <<>>]
NoRequest == [max_retries |-> 0, attempt |-> 0, last_error |-> None, broke |-> FALSE,
              slept |-> <<>>, outcomes |-> <<>>]

\* ------------------------------------------------------------------ state
InitControl ==
    /\ call = NoCall
    /\ pc = "idle"
    /\ pending_files = {}
    /\ final_results = <<>>
    /\ next_strategy = 1
    /\ mr_calls = <<>>
    /\ cf_calls = <<>>
    /\ reports = <<>>
    /\ net = NoRequest
    /\ gui = NoRun
    /\ ret = NoRet

Init ==
    /\ \E w \in Worlds :
          /\ files = w.files
          /\ modrinth = w.modrinth
          /\ curseforge = w.curseforge
    /\ InitControl

\* what no operation of the checker package writes
world == <<files, modrinth, curseforge, net, gui>>
loop_vars == <<pending_files, final_results, next_strategy, reports>>

\* a caller invokes Evaluator.evaluate on an evidence list
Evaluate ==
    /\ pc = "idle"
    /\ \E evidences \in EvidenceLists :
          /\ call' = [NoCall EXCEPT !.op = "evaluate", !.file_paths = <<P_ALPHA>>,
                                    !.evidences = evidences]
          /\ ret' = evaluate(P_ALPHA, evidences, Basename(P_ALPHA))
    /\ pc' = "done"
    /\ UNCHANGED <<world, loop_vars, mr_calls, cf_calls>>

\* a caller invokes OnlineVerificationStrategy.batch_collect_evidence
BatchCollectEvidence ==
    /\ pc = "idle"
    /\ \E has_cf \in BOOLEAN, file_paths \in PathLists, expected_loader \in ExpectedLoaders,
          target_mc \in Targets :
          \E b \in {batch_collect_evidence(file_paths, target_mc, expected_loader, has_cf)} :
             /\ call' = [NoCall EXCEPT !.op = "batch_collect_evidence",
                                       !.file_paths = file_paths, !.target_mc = target_mc,
                                       !.expected_loader = expected_loader, !.has_cf = has_cf]
             /\ ret' = [raised |-> b.raised, value |-> b.results]
             /\ mr_calls' = b.mr_calls
             /\ cf_calls' = b.cf_calls
    /\ pc' = "done"
    /\ UNCHANGED <<world, loop_vars>>

\* CheckerPipeline.check_files, lines 16-18: entry
CheckFilesEnter ==
    /\ pc = "idle"
    /\ \E file_paths \in PathLists, strategies \in StrategyLists, target_mc \in Targets,
          expected_loader \in ExpectedLoaders, relaxed \in RelaxedModes :
          call' = [NoCall EXCEPT !.op = "check_files", !.file_paths = file_paths,
                                 !.strategies = strategies, !.target_mc = target_mc,
                                 !.expected_loader = expected_loader, !.relaxed = relaxed]
    /\ pending_files' = Range(call'.file_paths)
    /\ final_results' = <<>>
    /\ next_strategy' = 1
    /\ pc' = "strategies"
    /\ UNCHANGED <<world, mr_calls, cf_calls, reports, ret>>

\* check_files, lines 20-40: one iteration of the loop over the strategies;
\* an exception of batch_verify leaves check_files
CheckFilesStrategy ==
    /\ pc = "strategies"
    /\ next_strategy <= Len(call.strategies)
    /\ pending_files # {}
    /\ \E current_batch \in Orderings(pending_files) :
       \E r \in {batch_verify(call.strategies[next_strategy], current_batch, call.target_mc,
                              call.expected_loader, call.relaxed)} :
       \E accepted \in {AcceptResults(r.results, <<>>)} :
             /\ mr_calls' = mr_calls \o r.mr_calls
             /\ cf_calls' = cf_calls \o r.cf_calls
             /\ reports' = reports \o [i \in DOMAIN r.verified |-> <<next_strategy, r.verified[i]>>]
             /\ IF r.raised
                THEN /\ pc' = "done"
                     /\ ret' = [raised |-> TRUE, value |-> <<>>]
                     /\ UNCHANGED <<pending_files, final_results, next_strategy>>
                ELSE /\ final_results' = final_results \o accepted
                     /\ pending_files' = pending_files \ Range(DictKeys(accepted))
                     /\ next_strategy' = next_strategy + 1
                     /\ UNCHANGED <<pc, ret>>
    /\ UNCHANGED <<world, call>>

\* check_files, lines 42-52: the loop is over; every pending path gets the
\* UNKNOWN result and the list is returned
CheckFilesReturn ==
    /\ pc = "strategies"
    /\ (next_strategy > Len(call.strategies) \/ pending_files = {})
    /\ \E rest \in Orderings(pending_files) :
          ret' = [raised |-> FALSE,
                  value |-> [i \in DOMAIN final_results |-> final_results[i][2]]
                            \o [i \in DOMAIN rest |-> UnknownResult(rest[i])]]
    /\ pc' = "done"
    /\ UNCHANGED <<world, call, loop_vars, mr_calls, cf_calls>>

Next ==
    \/ BatchCollectEvidence
    \/ CheckFilesEnter
    \/ CheckFilesStrategy
    \/ CheckFilesReturn

Spec == Init /\ [][Next]_vars

\* the evaluator on its own, in a world without files
InitEvaluator ==
    /\ files = FileSystem(F_MISSING, F_MISSING)
    /\ modrinth = MR_EMPTY
    /\ curseforge = CF_EMPTY
    /\ InitControl

NextEvaluator == Evaluate

SpecEvaluator == InitEvaluator /\ [][NextEvaluator]_vars

\* the operations that build a ModCheckResult from evidence: the evaluator on
\* a list handed to it, and the verify of the strategies inside check_files
NextStatus ==
    \/ Evaluate
    \/ CheckFilesEnter
    \/ CheckFilesStrategy
    \/ CheckFilesReturn

SpecStatus == Init /\ [][NextStatus]_vars

\* ------------------------------------------------ core/version_range.py
\* the six comparisons of two McVersion objects
Compare(a, b) ==
    [lt |-> VersionLt(a, b), eq |-> VersionEq(a, b), le |-> VersionLe(a, b),
     gt |-> VersionGt(a, b), ge |-> VersionGe(a, b)]

\* a caller parses a constraint and asks VersionRange.contains for a version
VersionRangeContains ==
    /\ pc = "idle"
    /\ \E range_str \in RangeExprs, version \in VersionTexts, relaxed \in RelaxedModes :
          /\ call' = [NoCall EXCEPT !.op = "contains", !.range_str = range_str,
                                    !.version = version, !.relaxed = relaxed]
          /\ ret' = [raised |-> FALSE,
                     value |-> RangeContains(VersionRange(range_str), version, relaxed)]
    /\ pc' = "done"
    /\ UNCHANGED <<world, loop_vars, mr_calls, cf_calls>>

\* a caller parses three version strings and compares the McVersion objects
McVersionCompare ==
    /\ pc = "idle"
    /\ \E a \in CompareTexts, b \in CompareTexts, c \in CompareTexts :
          /\ call' = [NoCall EXCEPT !.op = "compare", !.versions = <<a, b, c>>]
          /\ ret' = [raised |-> FALSE,
                     value |-> [parsed |-> <<McVersion(a), McVersion(b), McVersion(c)>>,
                                aa |-> Compare(McVersion(a), McVersion(a)),
                                ab |-> Compare(McVersion(a), McVersion(b)),
                                bc |-> Compare(McVersion(b), McVersion(c)),
                                ac |-> Compare(McVersion(a), McVersion(c))]]
    /\ pc' = "done"
    /\ UNCHANGED <<world, loop_vars, mr_calls, cf_calls>>

\* local.py 95-98: depends["minecraft"] of a parsed fabric.mod.json whose
\* "minecraft" dependency is the list deps of strings; an empty list is falsy
FabricMeta(deps) ==
    [json_ok |-> TRUE, is_dict |-> TRUE,
     mc_dep |-> IF deps = <<>> THEN [kind |-> "none", s |-> NoText, items |-> <<>>]
                ELSE [kind |-> "list", s |-> NoText,
                      items |-> [i \in DOMAIN deps |-> [kind |-> "str", s |-> deps[i]]]]]

\* the local strategy reads a fabric.mod.json with a list of constraints
CollectFabricEvidence ==
    /\ pc = "idle"
    /\ \E expected_loader \in {None, FORGE}, deps \in DependencyLists, target_mc \in FabricTargets :
       \E r \in {collect_fabric_evidence(FabricMeta(deps), target_mc, expected_loader)} :
          /\ call' = [NoCall EXCEPT !.op = "collect_fabric_evidence", !.mc_dep = deps,
                                    !.target_mc = target_mc,
                                    !.expected_loader = expected_loader]
          /\ ret' = [raised |-> r.raised, value |-> r.evs]
    /\ pc' = "done"
    /\ UNCHANGED <<world, loop_vars, mr_calls, cf_calls>>

NextVersionRange ==
    \/ VersionRangeContains
    \/ McVersionCompare
    \/ CollectFabricEvidence

\* constraints and versions on their own, in a world without files
SpecVersionRange == InitEvaluator /\ [][NextVersionRange]_vars

\* ------------------------------------------------------ core/hashing.py
InitHashing ==
    /\ \E content \in HashContents :
       \E other \in {F_MISSING} \cup {HashFile(c) : c \in ReferenceContents} :
          files = FileSystem(HashFile(content), other)
    /\ modrinth = MR_EMPTY
    /\ curseforge = CF_EMPTY
    /\ InitControl

\* a caller computes the fingerprints of two paths, as the loop of online.py
\* 47-50 does; hashed records the bytes handed to murmurhash2
ComputeCurseforgeHash ==
    /\ pc = "idle"
    /\ \E file_paths \in [1..2 -> Paths] :
          /\ call' = [NoCall EXCEPT !.op = "compute_curseforge_hash", !.file_paths = file_paths]
          /\ ret' = [raised |-> FALSE,
                     value |-> [i \in 1..2 |-> compute_curseforge_hash(file_paths[i])],
                     hashed |-> [i \in 1..2 |-> IF files[file_paths[i]].readable
                                                THEN Filtered(file_paths[i]) ELSE <<>>]]
    /\ pc' = "done"
    /\ UNCHANGED <<world, loop_vars, mr_calls, cf_calls>>

NextHashing == ComputeCurseforgeHash

\* the fingerprint on its own, on files of a few bytes
SpecHashing == InitHashing /\ [][NextHashing]_vars

\* a caller hashes data and a copy of it with one byte of the tail replaced;
\* acc records h of hashing.py at line 49, before the final mixing
Murmurhash2 ==
    /\ pc = "idle"
    /\ \E prefix \in WordPrefixes, tail \in Tails, b \in TailBytes :
       \E at \in DOMAIN tail :
          /\ tail[at] # b
          /\ call' = [NoCall EXCEPT !.op = "murmurhash2", !.data = prefix \o tail,
                                    !.changed = prefix \o [tail EXCEPT ![at] = b]]
          /\ ret' = [raised |-> FALSE,
                     value |-> <<murmurhash2(call'.data, 1), murmurhash2(call'.changed, 1)>>,
                     acc |-> <<MurmurAccumulator(call'.data, 1),
                               MurmurAccumulator(call'.changed, 1)>>]
    /\ pc' = "done"
    /\ UNCHANGED <<world, loop_vars, mr_calls, cf_calls>>

NextMurmur == Murmurhash2

\* murmurhash2 on its own, in a world without files
SpecMurmur == InitEvaluator /\ [][NextMurmur]_vars

\* ------------------------------------------------------ checker/local.py
\* descriptors an archive can hold: absent, a text json.loads rejects, a JSON
\* value that is no object, and a well-formed one
JSON_REJECTED == [NoJson EXCEPT !.present = TRUE]
JSON_LIST == [NoJson EXCEPT !.present = TRUE, !.json_ok = TRUE]
FabricDescriptors == {NoJson, JSON_REJECTED, JSON_LIST, F_FABRIC.archive.fabric}
TomlDescriptors == {NoToml, F_FORGE.archive.forge}
QUILT_LIST == [NoQuilt EXCEPT !.present = TRUE, !.json_ok = TRUE]
QUILT_1_20 == [NoQuilt EXCEPT !.present = TRUE, !.json_ok = TRUE, !.is_dict = TRUE,
                              !.versions = [kind |-> "str", s |-> RANGE_GE_1_20]]
QuiltDescriptors == {NoQuilt, QUILT_LIST, QUILT_1_20}
Archives ==
    {[is_zip |-> TRUE, fabric |-> fa, forge |-> fo, neoforge |-> ne, quilt |-> qu] :
        fa \in FabricDescriptors, fo \in TomlDescriptors, ne \in TomlDescriptors,
        qu \in QuiltDescriptors}

\* the file at P_BETA is an archive, an unreadable path or a file that is no
\* archive
InitLocal ==
    /\ \E f \in {F_MISSING, F_PLAIN} \cup {[F_FABRIC EXCEPT !.archive = z] : z \in Archives} :
          files = FileSystem(F_MISSING, f)
    /\ modrinth = MR_EMPTY
    /\ curseforge = CF_EMPTY
    /\ InitControl

\* a caller invokes LocalVerificationStrategy.collect_evidence
LocalCollectEvidence ==
    /\ pc = "idle"
    /\ \E target_mc \in Targets, expected_loader \in ExpectedLoaders, relaxed \in RelaxedModes :
          /\ call' = [NoCall EXCEPT !.op = "collect_evidence", !.file_paths = <<P_BETA>>,
                                    !.target_mc = target_mc,
                                    !.expected_loader = expected_loader,
                                    !.relaxed = relaxed]
          /\ ret' = [raised |-> FALSE,
                     value |-> Local_collect_evidence(P_BETA, target_mc, expected_loader,
                                                      relaxed)]
    /\ pc' = "done"
    /\ UNCHANGED <<world, loop_vars, mr_calls, cf_calls>>

NextLocal == LocalCollectEvidence

\* the local strategy on its own, on one file
SpecLocal == InitLocal /\ [][NextLocal]_vars

\* ------------------------------------------------------------- network.py
\* what one urlopen of an attempt can do: answer with a 2xx status and a body,
\* raise HTTPError with a status code, raise URLError, socket.timeout or
\* ConnectionError, or raise any other exception
Response(code, body) == [kind |-> "response", code |-> code, body |-> body]
HTTPError(code) == [kind |-> "HTTPError", code |-> code, body |-> None]
Failure(kind) == [kind |-> kind, code |-> 0, body |-> None]
Outcomes ==
    {Response(200, b) : b \in {"json", "blank", "text", "undecodable"}}
        \cup {Response(204, "blank")}
        \cup {HTTPError(c) : c \in {400, 404, 429, 500, 599}}
        \cup {Failure(k) : k \in {"URLError", "timeout", "ConnectionError", "Exception"}}

RECURSIVE Pow2(_)
Pow2(n) == IF n = 0 THEN 1 ELSE 2 * Pow2(n - 1)

RATE_LIMIT_CAP == 60
SERVER_ERROR_CAP == 10
CONNECTION_CAP == 5
wait_time(attempt, cap) == Min(Pow2(attempt), cap)

\* the exits of one iteration of the for loop: return, continue after a sleep,
\* break
Return(n, o, value) ==
    [net |-> [n EXCEPT !.outcomes = Append(@, o)], returned |-> TRUE, value |-> value]
Continue(n, o, cap, error) ==
    [net |-> [n EXCEPT !.outcomes = Append(@, o),
                       !.slept = Append(@, wait_time(n.attempt, cap)),
                       !.last_error = error,
                       !.attempt = @ + 1],
     returned |-> FALSE, value |-> <<>>]
Break(n, o, error) ==
    [net |-> [n EXCEPT !.outcomes = Append(@, o), !.last_error = error, !.broke = TRUE],
     returned |-> FALSE, value |-> <<>>]

\* the body of the with statement
ResponseStep(n, o) ==
    CASE o.code = 204 -> Return(n, o, <<204, None>>)
      [] o.body = "undecodable" -> Break(n, o, "NetworkError")
      [] o.body = "blank" -> Return(n, o, <<o.code, None>>)
      [] o.body = "json" -> Return(n, o, <<o.code, "json_body">>)
      [] OTHER -> Return(n, o, <<o.code, "content">>)

NOT_FOUND_AS_FAILURE == <<0, None>>
NOT_FOUND == <<404, None>>
IsRateLimit(code) == code = 429
IsNeverServerError(code) == FALSE
IsServerError(code) == 500 <= code /\ code < 600

\* except urllib.error.HTTPError
HTTPErrorStep(n, o) ==
    CASE o.code = 404 -> Return(n, o, NOT_FOUND)
      [] o.code # 404 /\ IsRateLimit(o.code) -> Continue(n, o, RATE_LIMIT_CAP, "RateLimitError")
      [] o.code # 404 /\ ~IsRateLimit(o.code) /\ IsServerError(o.code) ->
            Continue(n, o, SERVER_ERROR_CAP, "NetworkError")
      [] OTHER -> Return(n, o, <<o.code, None>>)

\* one iteration of the for loop on what urlopen did
AttemptStep(n, o) ==
    CASE o.kind = "response" -> ResponseStep(n, o)
      [] o.kind = "HTTPError" -> HTTPErrorStep(n, o)
      [] o.kind \in {"URLError", "timeout", "ConnectionError"} ->
            Continue(n, o, CONNECTION_CAP, "NetworkError")
      [] OTHER -> Break(n, o, "NetworkError")

\* a client calls _request; the for loop has not started
Request ==
    /\ pc = "idle"
    /\ \E max_retries \in 0..MaxRetries :
          net' = [NoRequest EXCEPT !.max_retries = max_retries]
    /\ call' = [NoCall EXCEPT !.op = "_request"]
    /\ pc' = "loop"
    /\ ret' = NoRet
    /\ UNCHANGED <<files, modrinth, curseforge, gui, loop_vars, mr_calls, cf_calls>>

\* one iteration of for attempt in range(self.max_retries + 1)
RequestAttempt ==
    /\ pc = "loop"
    /\ ~net.broke
    /\ net.attempt <= net.max_retries
    /\ \E o \in Outcomes :
       \E step \in {AttemptStep(net, o)} :
          /\ net' = step.net
          /\ pc' = IF step.returned THEN "done" ELSE "loop"
          /\ ret' = IF step.returned THEN [raised |-> FALSE, value |-> step.value] ELSE ret
    /\ UNCHANGED <<files, modrinth, curseforge, gui, call, loop_vars, mr_calls, cf_calls>>

\* the code after the loop, reached by break or when range() is used up
RequestExhausted ==
    /\ pc = "loop"
    /\ net.broke \/ net.attempt > net.max_retries
    /\ pc' = "done"
    /\ ret' = [raised |-> FALSE, value |-> <<0, None>>]
    /\ UNCHANGED <<world, call, loop_vars, mr_calls, cf_calls>>

NextRequest ==
    \/ Request
    \/ RequestAttempt
    \/ RequestExhausted

\* the network client on its own
SpecRequest == InitEvaluator /\ [][NextRequest]_vars

\* _request runs in one thread and every urlopen has a timeout and every sleep
\* an end: a started iteration finishes and the next line runs
SpecRequestLive ==
    SpecRequest /\ WF_vars(RequestAttempt) /\ WF_vars(RequestExhausted)


\* ------------------------------------------ mc_mod_compat_check.py, the GUI
\* the jar lists of a directory, sorted
JarLists == {<<>>, <<P_ALPHA>>, <<P_ALPHA, P_BETA>>}
STATUS_NOT_FOUND == "NOT_FOUND"
\* the statuses process_modrinth_result, try_local_metadata_check and
\* process_curseforge_result give to a file they know
FoundStatuses == {OK, WRONG_MC}

LegacyResult(file_path, status, source) ==
    [file_path |-> file_path, status |-> status, source |-> source]

\* self.root.after(0, self._handle_new_result, res)
HandleNewResult(g, res) == [g EXCEPT !.results_data = Append(@, res)]

\* if cache_mgr: cache_mgr.set(cache_key, {...})
CacheSet(g, res) == IF g.cache_mgr THEN [g EXCEPT !.data = Append(@, res)] ELSE g

\* a result is shown and cached, and the loop goes to its next item
EmitAndCache(g, res) == [CacheSet(HandleNewResult(g, res), res) EXCEPT !.idx = @ + 1]

rest_vars == <<files, modrinth, curseforge, net, loop_vars, mr_calls, cf_calls, ret>>

\* start_check while no check runs; cached are the files the cache of an
\* earlier run knows
StartCheck ==
    /\ pc = "idle"
    /\ ~gui.is_running
    /\ \E jars \in JarLists, cf_client \in BOOLEAN, cache_mgr \in BOOLEAN :
       \E cached \in SUBSET Range(jars) :
          /\ cache_mgr \/ cached = {}
          /\ gui' = [NoRun EXCEPT !.is_running = TRUE, !.jars = jars,
                                  !.cf_client = cf_client, !.cache_mgr = cache_mgr,
                                  !.cached = cached]
          /\ call' = [NoCall EXCEPT !.op = "_run_check", !.file_paths = jars]
    /\ pc' = "run_check"
    /\ UNCHANGED rest_vars

\* start_check while a check runs: the button asks the check to stop
StopCheck ==
    /\ gui.is_running
    /\ ~gui.stop_event
    /\ gui' = [gui EXCEPT !.stop_event = TRUE,
                          !.stopped_at = <<Len(gui.requests), Len(gui.results_data)>>]
    /\ UNCHANGED <<rest_vars, call, pc>>

\* _run_check 1595-1599: no jar, no check
RunCheckEnter ==
    /\ pc = "run_check"
    /\ pc' = IF gui.jars = <<>> THEN "finish" ELSE "hashing"
    /\ UNCHANGED <<rest_vars, call, gui>>

\* phase 1, one turn of the as_completed loop: sha1_file raises on a file
\* that cannot be read and the file is dropped
ComputeHashes ==
    /\ pc = "hashing"
    /\ IF gui.stop_event \/ gui.hashed = Range(gui.jars)
       THEN pc' = "after_hashing" /\ gui' = [gui EXCEPT !.idx = 1]
       ELSE /\ pc' = pc
            /\ \E jar \in Range(gui.jars) \ gui.hashed, readable \in BOOLEAN :
                  gui' = [gui EXCEPT !.hashed = @ \cup {jar},
                                     !.file_infos = IF readable THEN Append(@, jar) ELSE @]
    /\ UNCHANGED <<rest_vars, call>>

\* 1638-1640: the stop check between phase 1 and phase 2
AfterHashing ==
    /\ pc = "after_hashing"
    /\ pc' = IF gui.stop_event THEN "finish" ELSE "cache"
    /\ UNCHANGED <<rest_vars, call, gui>>

\* phase 2, one turn of the loop over file_infos
CheckCache ==
    /\ pc = "cache"
    /\ IF gui.idx > Len(gui.file_infos)
       THEN pc' = "phase3" /\ gui' = gui
       ELSE /\ pc' = pc
            /\ gui' = IF gui.file_infos[gui.idx] \in gui.cached
                      THEN [HandleNewResult(gui, LegacyResult(gui.file_infos[gui.idx], OK, "cache"))
                                EXCEPT !.idx = @ + 1]
                      ELSE [gui EXCEPT !.missing_in_cache = Append(@, gui.file_infos[gui.idx]),
                                       !.idx = @ + 1]
    /\ UNCHANGED <<rest_vars, call>>

\* phase 3, 1675-1681: the batch request to Modrinth starts
ModrinthBatch ==
    /\ pc = "phase3"
    /\ IF gui.missing_in_cache # <<>> /\ ~gui.stop_event
       THEN pc' = "modrinth_request" /\ gui' = [gui EXCEPT !.requests = Append(@, "modrinth")]
       ELSE pc' = "save" /\ gui' = gui
    /\ UNCHANGED <<rest_vars, call>>

\* get_versions_by_hashes returns
ModrinthReturn ==
    /\ pc = "modrinth_request"
    /\ \E found \in SUBSET Range(gui.missing_in_cache) :
          gui' = [gui EXCEPT !.mr_results = found, !.idx = 1]
    /\ pc' = "modrinth_loop"
    /\ UNCHANGED <<rest_vars, call>>

\* phase 3, one turn of the loop over missing_in_cache
RunModrinthLoop ==
    /\ pc = "modrinth_loop"
    /\ IF gui.idx > Len(gui.missing_in_cache) \/ gui.stop_event
       THEN pc' = "local_loop" /\ gui' = [gui EXCEPT !.idx = 1]
       ELSE /\ pc' = pc
            /\ IF gui.missing_in_cache[gui.idx] \in gui.mr_results
               THEN \E status \in FoundStatuses :
                       gui' = EmitAndCache(gui, LegacyResult(gui.missing_in_cache[gui.idx],
                                                             status, "modrinth"))
               ELSE gui' = [gui EXCEPT !.still_missing = Append(@, gui.missing_in_cache[gui.idx]),
                                       !.idx = @ + 1]
    /\ UNCHANGED <<rest_vars, call>>

\* phase 4, one turn of the loop over still_missing
LocalFallback ==
    /\ pc = "local_loop"
    /\ IF gui.idx > Len(gui.still_missing) \/ gui.stop_event
       THEN pc' = "phase5" /\ gui' = [gui EXCEPT !.idx = 1]
       ELSE /\ pc' = pc
            /\ \/ \E status \in FoundStatuses :
                     gui' = EmitAndCache(gui, LegacyResult(gui.still_missing[gui.idx],
                                                           status, "local"))
               \/ gui' = [gui EXCEPT !.final_missing_for_cf = Append(@, gui.still_missing[gui.idx]),
                                     !.idx = @ + 1]
    /\ UNCHANGED <<rest_vars, call>>

\* phase 5, 1736-1741: the batch request to CurseForge starts, or the else
\* branch is taken
CurseforgeBatch ==
    /\ pc = "phase5"
    /\ IF gui.final_missing_for_cf # <<>> /\ gui.cf_client /\ ~gui.stop_event
       THEN pc' = "curseforge_request" /\ gui' = [gui EXCEPT !.requests = Append(@, "curseforge")]
       ELSE pc' = "not_found_loop" /\ gui' = gui
    /\ UNCHANGED <<rest_vars, call>>

\* get_fingerprint_matches returns
CurseforgeReturn ==
    /\ pc = "curseforge_request"
    /\ \E found \in SUBSET Range(gui.final_missing_for_cf) :
          gui' = [gui EXCEPT !.cf_results = found, !.idx = 1]
    /\ pc' = "curseforge_loop"
    /\ UNCHANGED <<rest_vars, call>>

\* phase 5, one turn of the loop over final_missing_for_cf after the request
RunCurseforgeLoop ==
    /\ pc = "curseforge_loop"
    /\ IF gui.idx > Len(gui.final_missing_for_cf) \/ gui.stop_event
       THEN pc' = "save" /\ gui' = gui
       ELSE /\ pc' = pc
            /\ IF gui.final_missing_for_cf[gui.idx] \in gui.cf_results
               THEN \E status \in FoundStatuses :
                       gui' = EmitAndCache(gui, LegacyResult(gui.final_missing_for_cf[gui.idx],
                                                             status, "curseforge"))
               ELSE gui' = EmitAndCache(gui, LegacyResult(gui.final_missing_for_cf[gui.idx],
                                                          STATUS_NOT_FOUND, "unknown"))
    /\ UNCHANGED <<rest_vars, call>>

\* phase 5, 1768-1785: one turn of the loop of the else branch
NotFoundLoop ==
    /\ pc = "not_found_loop"
    /\ IF gui.idx > Len(gui.final_missing_for_cf)
       THEN pc' = "save" /\ gui' = gui
       ELSE /\ pc' = pc
            /\ gui' = EmitAndCache(gui, LegacyResult(gui.final_missing_for_cf[gui.idx],
                                                     STATUS_NOT_FOUND, "unknown"))
    /\ UNCHANGED <<rest_vars, call>>

\* 1787-1788: cache_mgr.save()
SaveCache ==
    /\ pc = "save"
    /\ gui' = IF gui.cache_mgr THEN [gui EXCEPT !.saved = gui.data] ELSE gui
    /\ pc' = "finish"
    /\ UNCHANGED <<rest_vars, call>>

\* _finish_check, scheduled by root.after at every exit of _run_check
FinishCheck ==
    /\ pc = "finish"
    /\ gui' = [gui EXCEPT !.is_running = FALSE, !.finished = @ + 1]
    /\ pc' = "done"
    /\ UNCHANGED <<rest_vars, call>>

NextGui ==
    \/ StartCheck
    \/ StopCheck
    \/ RunCheckEnter
    \/ ComputeHashes
    \/ AfterHashing
    \/ CheckCache
    \/ ModrinthBatch
    \/ ModrinthReturn
    \/ RunModrinthLoop
    \/ LocalFallback
    \/ CurseforgeBatch
    \/ CurseforgeReturn
    \/ RunCurseforgeLoop
    \/ NotFoundLoop
    \/ SaveCache
    \/ FinishCheck

\* one batch check of the GUI, with the stop button pressed at any moment
SpecGui == InitEvaluator /\ [][NextGui]_vars

\* ============================================================ properties
EvaluateDone == call.op = "evaluate" /\ pc = "done"

\* the largest confidence of a non-empty evidence list
MaxConfidence(evs) ==
    CHOOSE c \in {evs[i].confidence : i \in DOMAIN evs} :
        \A i \in DOMAIN evs : evs[i].confidence <= c

\* the index of the earliest item of maximal confidence
FirstMaxIndex(evs) ==
    CHOOSE i \in DOMAIN evs :
        /\ evs[i].confidence = MaxConfidence(evs)
        /\ \A j \in 1..(i - 1) : evs[j].confidence < MaxConfidence(evs)

\* C3: for a non-empty evidence list, Evaluator.evaluate returns the level,
\* reason and source of the earliest item of maximal confidence, whatever
\* the number and the levels of the items of lower confidence.
C3_HighestConfidenceWins ==
    (EvaluateDone /\ call.evidences # <<>>) =>
        LET w == call.evidences[FirstMaxIndex(call.evidences)]
        IN /\ ~ret.raised
           /\ ret.value.level = w.level
           /\ ret.value.reason = w.reason
           /\ ret.value.source = w.source

\* C3 witness: two items of lower confidence and of positive level stand
\* before a single UNSUPPORTED item of confidence 1.0, and UNSUPPORTED wins.
C3_Witness ==
    /\ EvaluateDone
    /\ Len(call.evidences) = 3
    /\ call.evidences[1].confidence < CONF_MR_MATCH
    /\ call.evidences[2].confidence < CONF_MR_MATCH
    /\ call.evidences[1].level = POSSIBLE
    /\ call.evidences[3].confidence = CONF_MR_MATCH
    /\ call.evidences[3].level = UNSUPPORTED
    /\ ret.value.level = UNSUPPORTED

\* the lists with the same items in another order
PermutationsOf(seq) ==
    {[i \in DOMAIN seq |-> seq[q[i]]] : q \in Orderings(DOMAIN seq)}

\* the verdict fields that depend on the winning item
Verdict(res) == <<res.level, res.source, res.reason, res.status>>

\* C4 as stated: for every evidence list and every permutation of it,
\* Evaluator.evaluate returns the same level, source, reason and status.
C4_OrderIndependent ==
    EvaluateDone =>
        \A p \in PermutationsOf(call.evidences) :
            Verdict(evaluate(P_ALPHA, p, Basename(P_ALPHA)).value) = Verdict(ret.value)

\* the items of maximal confidence agree on level, source and reason
MaxItemsAgree(evs) ==
    \A i, j \in DOMAIN evs :
        (evs[i].confidence = MaxConfidence(evs) /\ evs[j].confidence = MaxConfidence(evs))
            => /\ evs[i].level = evs[j].level
               /\ evs[i].source = evs[j].source
               /\ evs[i].reason = evs[j].reason

\* C4 amended: for every evidence list whose items of maximal confidence
\* agree on level, source and reason, every permutation of the list gets the
\* same level, source, reason and status; among differing items of maximal
\* confidence the input order decides.
C4_OrderIndependentUpToTies ==
    (EvaluateDone /\ (call.evidences = <<>> \/ MaxItemsAgree(call.evidences))) =>
        \A p \in PermutationsOf(call.evidences) :
            Verdict(evaluate(P_ALPHA, p, Basename(P_ALPHA)).value) = Verdict(ret.value)

\* C4 witness: a list of three different items, the single item of maximal
\* confidence last, has been evaluated.
C4_Witness ==
    /\ EvaluateDone
    /\ Len(call.evidences) = 3
    /\ call.evidences[1] # call.evidences[2]
    /\ call.evidences[1].confidence = call.evidences[2].confidence
    /\ call.evidences[3].confidence > call.evidences[1].confidence
    /\ ret.value.level = call.evidences[3].level

\* C5: Evaluator.evaluate on the empty evidence list does not raise and
\* returns level UNKNOWN and status UNKNOWN.
C5_EmptyIsUnknown ==
    (EvaluateDone /\ call.evidences = <<>>) =>
        /\ ~ret.raised
        /\ ret.value.level = LEVEL_UNKNOWN
        /\ ret.value.status = STATUS_UNKNOWN

\* C5 witness: evaluate has returned from a call on the empty list.
C5_Witness ==
    /\ EvaluateDone
    /\ call.evidences = <<>>
    /\ ~ret.raised
    /\ ret.value.evidence = <<>>

\* C6: for a non-empty input list the result carries every input item in
\* input order, and the caller's list is the same after the call.
C6_FullAuditTrail ==
    (EvaluateDone /\ call.evidences # <<>>) =>
        /\ ret.value.evidence = call.evidences
        /\ ret.evidences = call.evidences

\* C6 witness: the winning item is the last of three, and the two
\* overridden items before it are still in the result.
C6_Witness ==
    /\ EvaluateDone
    /\ Len(call.evidences) = 3
    /\ ret.value.source = call.evidences[3].source
    /\ call.evidences[1].source # call.evidences[3].source
    /\ call.evidences[2].confidence > call.evidences[1].confidence
    /\ Len(ret.value.evidence) = 3

CheckFilesDone == call.op = "check_files" /\ pc = "done"
CheckFilesReturned == CheckFilesDone /\ ~ret.raised

\* the indexes of the returned results whose file_path is fp
ResultsFor(fp) == {i \in DOMAIN ret.value : ret.value[i].file_path = fp}

\* the evidence a configured strategy collects for one artifact of the
\* current call; a strategy that raises yields none
StrategyEvidence(strategy, fp) ==
    IF strategy.kind = "online"
    THEN LET b == batch_collect_evidence(<<fp>>, call.target_mc, call.expected_loader,
                                         strategy.has_cf)
         IN IF b.raised THEN <<>> ELSE b.results[fp]
    ELSE Local_collect_evidence(fp, call.target_mc, call.expected_loader, call.relaxed)

\* no configured strategy yields evidence for fp
NoEvidenceFor(fp) ==
    \A k \in DOMAIN call.strategies : StrategyEvidence(call.strategies[k], fp) = <<>>

\* C1 as stated, on the calls that return: check_files returns exactly one
\* result per input path: the output is as long as the input list (also when
\* the list names the same path more than once) and every input path is the
\* file_path of a result.
C1_OneResultPerInputPath ==
    CheckFilesReturned =>
        /\ Len(ret.value) = Len(call.file_paths)
        /\ \A i \in DOMAIN call.file_paths : ResultsFor(call.file_paths[i]) # {}

\* C2: when check_files returns, an artifact for which no configured
\* strategy yields evidence has exactly one result, of status UNKNOWN, level
\* UNKNOWN and with an empty evidence list (so never WRONG_MC, WRONG_LOADER
\* or UNSUPPORTED).
C2_NoEvidenceIsUnknown ==
    CheckFilesReturned =>
        \A fp \in Range(call.file_paths) :
            NoEvidenceFor(fp) =>
                /\ Cardinality(ResultsFor(fp)) = 1
                /\ \A i \in ResultsFor(fp) :
                      /\ ret.value[i].status = STATUS_UNKNOWN
                      /\ ret.value[i].level = LEVEL_UNKNOWN
                      /\ ret.value[i].evidence = <<>>

\* C2 witness: the online strategy (with catalog B) and the local strategy
\* both ran over a batch of two artifacts; one has no evidence anywhere and
\* is UNKNOWN, the other was resolved.
C2_Witness ==
    /\ CheckFilesReturned
    /\ call.strategies = <<STRAT_ONLINE_CF, STRAT_LOCAL>>
    /\ call.file_paths = <<P_ALPHA, P_BETA>>
    /\ NoEvidenceFor(P_ALPHA)
    /\ ~NoEvidenceFor(P_BETA)
    /\ \E i \in ResultsFor(P_ALPHA) : ret.value[i].status = STATUS_UNKNOWN
    /\ \E i \in ResultsFor(P_BETA) : ret.value[i].status # STATUS_UNKNOWN

\* C7 as stated: every configured strategy reports for every artifact, and
\* the verdict's evidence list contains the evidence of every strategy.
C7_AllStrategiesMerged ==
    CheckFilesReturned =>
        \A fp \in Range(call.file_paths) : \A k \in DOMAIN call.strategies :
            /\ <<k, fp>> \in Range(reports)
            /\ \A i \in ResultsFor(fp) :
                  Range(StrategyEvidence(call.strategies[k], fp)) \subseteq Range(ret.value[i].evidence)

\* C8 as stated: during one check_files call whose first strategy is the
\* online one, get_versions_by_hashes is invoked at most once, with the
\* hashes of all artifacts of the batch.
C8_OneRoundTripPerBatch ==
    (CheckFilesReturned /\ call.strategies[1].kind = "online") =>
        /\ Len(mr_calls) <= 1
        /\ \A i \in DOMAIN mr_calls :
              Range(mr_calls[i]) = {files[fp].sha1 : fp \in Range(call.file_paths)}

\* C9 as stated: with an unreadable file in the batch check_files still
\* returns normally, with a verdict for every artifact.
C9_UnreadableFileIsolated ==
    (CheckFilesDone /\ \E fp \in Range(call.file_paths) : ~files[fp].readable) =>
        /\ ~ret.raised
        /\ \A fp \in Range(call.file_paths) : ResultsFor(fp) # {}

BatchCollectDone == call.op = "batch_collect_evidence" /\ pc = "done"

\* the batch is made of readable files of pairwise different content
ReadableDistinctBatch ==
    /\ \A fp \in Range(call.file_paths) : files[fp].readable
    /\ \A fp, fq \in Range(call.file_paths) : fp # fq => files[fp].sha1 # files[fq].sha1

\* catalog A answers and holds a well-formed record for the content of fp
ModrinthHasRecord(fp) ==
    /\ ~modrinth.raises
    /\ \E i \in DOMAIN modrinth.items :
          modrinth.items[i][1] = files[fp].sha1 /\ modrinth.items[i][2].is_dict

\* catalog A does not match fp
ModrinthMisses(fp) ==
    modrinth.raises \/ \A i \in DOMAIN modrinth.items : modrinth.items[i][1] # files[fp].sha1

\* catalog B answers and holds a well-formed record for the content of fp
CurseforgeHasRecord(fp) ==
    /\ ~curseforge.raises
    /\ \E i \in DOMAIN curseforge.items :
          /\ curseforge.items[i][1] = compute_curseforge_hash(fp)
          /\ curseforge.items[i][2].is_dict
          /\ <<>> \notin Range(curseforge.items[i][2].gameVersions)

HasSource(evs, source) == \E i \in DOMAIN evs : evs[i].source = source

\* C10 as stated: batch_collect_evidence returns normally; if the catalog A
\* call raises, catalog B is still consulted; and a failure on one catalog
\* record never costs another artifact its catalog evidence: every artifact
\* with a well-formed record in catalog A gets modrinth evidence, and every
\* artifact unmatched by A with a well-formed record in B gets curseforge
\* evidence.
C10_CatalogFailureIsolated ==
    (BatchCollectDone /\ ReadableDistinctBatch) =>
        /\ ~ret.raised
        /\ (modrinth.raises /\ call.has_cf /\ call.file_paths # <<>>) => Len(cf_calls) = 1
        /\ \A fp \in Range(call.file_paths) :
              /\ ModrinthHasRecord(fp) => HasSource(ret.value[fp], "modrinth")
              /\ (call.has_cf /\ ModrinthMisses(fp) /\ CurseforgeHasRecord(fp))
                    => HasSource(ret.value[fp], "curseforge")

\* the online strategy was handed fp during the current check_files call
OnlineReported(fp) ==
    \E i \in DOMAIN reports :
        reports[i][2] = fp /\ call.strategies[reports[i][1]].kind = "online"

\* the record catalog A returns for the content of fp matches the call: it
\* lists the target version and, when a loader is expected, a loader
\* compatible with it
ModrinthRecordMatches(fp) ==
    /\ ~modrinth.raises
    /\ \E i \in DOMAIN modrinth.items :
          /\ modrinth.items[i][1] = files[fp].sha1
          /\ modrinth.items[i][2].is_dict
          /\ call.target_mc \in Range(modrinth.items[i][2].game_versions)
          /\ \/ call.expected_loader = None
             \/ AnyIn(MapLower(modrinth.items[i][2].loaders),
                      LOADER_COMPAT(Lower(call.expected_loader)))

\* C11: when check_files returns and catalog A, asked about an artifact,
\* returned a record that lists the target version and a loader compatible
\* with the expected one, the artifact's result has level CONFIRMED, status
\* OK and source "modrinth".
C11_CatalogMatchConfirms ==
    CheckFilesReturned =>
        \A fp \in Range(call.file_paths) :
            (OnlineReported(fp) /\ ModrinthRecordMatches(fp)) =>
                /\ ResultsFor(fp) # {}
                /\ \A i \in ResultsFor(fp) :
                      /\ ret.value[i].level = CONFIRMED
                      /\ ret.value[i].status = OK
                      /\ ret.value[i].source = "modrinth"

\* C11 witness: fabric expected, the online strategy first, and the record
\* of P_ALPHA lists 1.20.1 and fabric; the result is CONFIRMED from modrinth.
C11_Witness ==
    /\ CheckFilesReturned
    /\ call.strategies = <<STRAT_ONLINE, STRAT_LOCAL>>
    /\ call.expected_loader # None /\ call.expected_loader = FABRIC
    /\ P_ALPHA \in Range(call.file_paths)
    /\ OnlineReported(P_ALPHA) /\ ModrinthRecordMatches(P_ALPHA)
    /\ \E i \in ResultsFor(P_ALPHA) :
          ret.value[i].level = CONFIRMED /\ ret.value[i].source = "modrinth"

\* C12 as stated: a result that check_files derives from a catalog A record
\* has mod_name equal to the name of that record.
C12_CatalogNameCarried ==
    CheckFilesReturned =>
        \A fp \in Range(call.file_paths) : \A i \in ResultsFor(fp) :
            (OnlineReported(fp) /\ ModrinthHasRecord(fp) /\ ret.value[i].source = "modrinth") =>
                \E k \in DOMAIN modrinth.items :
                    /\ modrinth.items[k][1] = files[fp].sha1
                    /\ ret.value[i].mod_name = modrinth.items[k][2].name

\* the local strategy was handed fp during the current check_files call
LocalReported(fp) ==
    \E i \in DOMAIN reports :
        reports[i][2] = fp /\ call.strategies[reports[i][1]].kind = "local"

\* the scenario of C13: P_BETA (file name with 1.19.2) holds a Forge
\* descriptor with range [1.19,1.20), the target is 1.19.4, and the local
\* strategy was handed the file
ForgeRangeScenario ==
    /\ CheckFilesReturned
    /\ call.target_mc = V_1_19_4
    /\ files[P_BETA] = F_FORGE
    /\ P_BETA \in Range(call.file_paths)
    /\ LocalReported(P_BETA)

\* C13 as stated: in the scenario the verdict is UNSUPPORTED and it is the
\* descriptor's evidence that says so.
C13_DescriptorUnsupported ==
    ForgeRangeScenario =>
        \A i \in ResultsFor(P_BETA) :
            /\ ret.value[i].level = UNSUPPORTED
            /\ ret.value[i].source = "local_metadata"

\* C13 amended: in the scenario, with no expected loader or one of the Forge
\* family, the descriptor's evidence is POSSIBLE (1.19.4 lies in
\* [1.19,1.20)), the filename's evidence is UNSUPPORTED, the descriptor's
\* evidence outranks it, and the verdict is POSSIBLE with status OK.
C13_DescriptorPossibleWins ==
    (ForgeRangeScenario
     /\ (call.expected_loader = None \/ Lower(call.expected_loader) \in {FORGE, NEOFORGE})) =>
        /\ ResultsFor(P_BETA) # {}
        /\ \A i \in ResultsFor(P_BETA) :
              /\ ret.value[i].level = POSSIBLE
              /\ ret.value[i].status = OK
              /\ ret.value[i].source = "local_metadata"
              /\ Len(ret.value[i].evidence) = 2
              /\ ret.value[i].evidence[1].source = "local_metadata"
              /\ ret.value[i].evidence[1].level = POSSIBLE
              /\ ret.value[i].evidence[2].source = "heuristic"
              /\ ret.value[i].evidence[2].level = UNSUPPORTED
              /\ ret.value[i].evidence[1].confidence > ret.value[i].evidence[2].confidence

\* C13 witness: the scenario with the local strategy alone and no expected
\* loader; the verdict is POSSIBLE.
C13_Witness ==
    /\ ForgeRangeScenario
    /\ call.strategies = <<STRAT_LOCAL>>
    /\ call.expected_loader = None
    /\ \E i \in ResultsFor(P_BETA) : ret.value[i].level = POSSIBLE

\* ------------------------------------------ constraints and versions
ContainsDone == call.op = "contains" /\ pc = "done"
CompareDone == call.op = "compare" /\ pc = "done"
CollectFabricDone == call.op = "collect_fabric_evidence" /\ pc = "done"

\* the expressions that are empty or are no constraint of any syntax
IndeterminateExprs == {RANGE_EMPTY, RANGE_BLANK, RANGE_WORD}

\* C14: an empty or malformed constraint expression is indeterminate:
\* evaluating it never raises and yields neither true nor false, and the
\* local strategy produces no evidence from a dependency whose constraints
\* are all indeterminate (in particular no UNSUPPORTED evidence).
C14_MalformedIsIndeterminate ==
    /\ (ContainsDone /\ call.range_str \in IndeterminateExprs) =>
          (~ret.raised /\ ret.value \notin BOOLEAN)
    /\ (/\ CollectFabricDone
        /\ call.expected_loader = None
        /\ call.mc_dep # <<>>
        /\ \A i \in DOMAIN call.mc_dep : call.mc_dep[i] \in IndeterminateExprs) =>
          (~ret.raised /\ ret.value = <<>>)

\* comparator, range or wildcard syntax in a raw constraint string
HasRangeSyntax(c) ==
    \/ \E i \in DOMAIN c : c[i] \in {">", "<", "=", "[", "(", "*"}
    \/ Contains(c, <<".", "x">>)

\* the entry c of a dependency list matches the target
EntryMatches(c, target_mc) == RangeContains(VersionRange(c), target_mc, FALSE)

\* the list deps is satisfied for the target after classification
ListSatisfied(deps, target_mc) ==
    IF \E i \in DOMAIN deps : HasRangeSyntax(deps[i])
    THEN \A i \in DOMAIN deps : EntryMatches(deps[i], target_mc)
    ELSE \E i \in DOMAIN deps : EntryMatches(deps[i], target_mc)

\* C15: a dependency list with several constraint strings is classified
\* before evaluation: with comparator, range or wildcard syntax in any entry
\* it is satisfied iff all entries match the target, otherwise iff at least
\* one entry matches; the descriptor's evidence is POSSIBLE exactly when the
\* list is satisfied.
C15_ListClassified ==
    (CollectFabricDone /\ call.expected_loader = None /\ Len(call.mc_dep) > 1) =>
        /\ ~ret.raised
        /\ Len(ret.value) = 1
        /\ (ret.value[1].level = POSSIBLE) = ListSatisfied(call.mc_dep, call.target_mc)
        /\ ret.value[1].level \in {POSSIBLE, UNSUPPORTED}

\* C16: the range parsed from "*" contains every version.
C16_StarContainsEverything ==
    (ContainsDone /\ call.range_str = RANGE_STAR) => (~ret.raised /\ ret.value = TRUE)

\* the wildcard expressions and the prefix each one names
WildcardPrefix(range_str) ==
    CASE range_str = RANGE_WILD_1_20 -> <<1, 20>>
      [] range_str = RANGE_WILD_1_16 -> <<1, 16>>
      [] range_str = RANGE_WILD_1 -> <<1>>

WildcardExprs == {RANGE_WILD_1_20, RANGE_WILD_1_16, RANGE_WILD_1}

\* the version triple v shares the prefix
SharesPrefix(v, prefix) == \A i \in DOMAIN prefix : v[i] = prefix[i]

\* C17: a wildcard expression P.x contains exactly the versions that share
\* the prefix P, for a two-segment prefix and for a one-segment prefix.
C17_WildcardSharesPrefix ==
    (ContainsDone /\ call.range_str \in WildcardExprs) =>
        /\ ~ret.raised
        /\ ret.value = SharesPrefix(McVersion(call.version), WildcardPrefix(call.range_str))

\* the lexicographic order on triples
LexLess(x, y) ==
    \/ x[1] < y[1]
    \/ x[1] = y[1] /\ x[2] < y[2]
    \/ x[1] = y[1] /\ x[2] = y[2] /\ x[3] < y[3]

\* the bracketed intervals: the bounds (<<>> when absent), whether '[' opens
\* and ']' closes, and whether the text is a single value without comma
Interval(lo, hi, opened, closed, single) ==
    [lo |-> lo, hi |-> hi, opened |-> opened, closed |-> closed, single |-> single]

IntervalOf(range_str) ==
    CASE range_str = RANGE_CLOSED_OPEN -> Interval(<<1, 16, 5>>, <<1, 17, 0>>, "[", ")", FALSE)
      [] range_str = RANGE_OPEN_CLOSED -> Interval(<<1, 16, 5>>, <<1, 17, 0>>, "(", "]", FALSE)
      [] range_str = RANGE_CLOSED_CLOSED -> Interval(<<1, 16, 5>>, <<1, 17, 0>>, "[", "]", FALSE)
      [] range_str = RANGE_OPEN_OPEN -> Interval(<<1, 16, 5>>, <<1, 17, 0>>, "(", ")", FALSE)
      [] range_str = RANGE_NO_LOWER -> Interval(<<>>, <<1, 17, 0>>, "(", "]", FALSE)
      [] range_str = RANGE_NO_UPPER -> Interval(<<1, 16, 5>>, <<>>, "[", ")", FALSE)
      [] range_str = RANGE_SINGLE_CLOSED -> Interval(<<1, 17, 0>>, <<1, 17, 0>>, "[", "]", TRUE)
      [] range_str = RANGE_SINGLE_OPEN -> Interval(<<1, 17, 0>>, <<1, 17, 0>>, "(", ")", TRUE)

IntervalExprs ==
    {RANGE_CLOSED_OPEN, RANGE_OPEN_CLOSED, RANGE_CLOSED_CLOSED, RANGE_OPEN_OPEN, RANGE_NO_LOWER,
     RANGE_NO_UPPER, RANGE_SINGLE_CLOSED, RANGE_SINGLE_OPEN}

\* v lies within the two bounds of the interval iv
WithinBounds(iv, v) ==
    /\ \/ iv.lo = <<>>
       \/ IF iv.opened = "[" THEN ~LexLess(v, iv.lo) ELSE LexLess(iv.lo, v)
    /\ \/ iv.hi = <<>>
       \/ IF iv.closed = "]" THEN ~LexLess(iv.hi, v) ELSE LexLess(v, iv.hi)

\* C18: for a bracketed interval, contains(v) holds iff v respects the lower
\* bound (absent, inclusive after '[', exclusive after '(') and the upper
\* bound (absent, inclusive before ']', exclusive before ')'); a bracketed
\* single value without comma contains exactly the versions equal to it.
C18_BracketedInterval ==
    (ContainsDone /\ ~call.relaxed /\ call.range_str \in IntervalExprs) =>
        /\ ~ret.raised
        /\ ret.value = IF IntervalOf(call.range_str).single
                       THEN McVersion(call.version) = IntervalOf(call.range_str).lo
                       ELSE WithinBounds(IntervalOf(call.range_str), McVersion(call.version))

\* C19: McVersion comparison is a total order, lexicographic on the triple:
\* a == a; exactly one of a < b, a == b, a > b; a <= b and b <= c imply
\* a <= c; and <=, >, >= agree with < and == on the triple.
C19_TotalOrder ==
    CompareDone =>
        LET v == ret.value
            a == v.parsed[1]
            b == v.parsed[2]
        IN /\ v.aa.eq
           /\ \/ v.ab.lt /\ ~v.ab.eq /\ ~v.ab.gt
              \/ ~v.ab.lt /\ v.ab.eq /\ ~v.ab.gt
              \/ ~v.ab.lt /\ ~v.ab.eq /\ v.ab.gt
           /\ (v.ab.le /\ v.bc.le) => v.ac.le
           /\ v.ab.lt = LexLess(a, b)
           /\ v.ab.eq = (a = b)
           /\ v.ab.le = (LexLess(a, b) \/ a = b)
           /\ v.ab.gt = LexLess(b, a)
           /\ v.ab.ge = (LexLess(b, a) \/ a = b)

\* C19 witness: three versions that differ in the patch, in the minor and
\* only in their spelling are compared; the first is smaller than the second.
C19_Witness ==
    /\ CompareDone
    /\ call.versions = <<V_1_17_1, V_PREFIXED_1_20_1, V_1_20_1_RC1>>
    /\ ret.value.ab.lt /\ ret.value.bc.eq /\ ret.value.ac.le

\* ------------------------------------------------------------ fingerprint
HashDone == call.op = "compute_curseforge_hash" /\ pc = "done"

IsNoWhitespaceByte(b) == b \notin {9, 10, 13, 32}

\* content without its bytes 0x09, 0x0A, 0x0D and 0x20
StripWhitespace(content) == SelectSeq(content, IsNoWhitespaceByte)

\* C20: compute_curseforge_hash is a deterministic function of the content
\* with every byte 0x09, 0x0A, 0x0D, 0x20 removed: the bytes hashed are the
\* content without exactly these four values, and two readable files whose
\* contents agree up to such bytes (identical contents included) get the
\* same fingerprint.
C20_FingerprintIgnoresWhitespace ==
    HashDone =>
        /\ ~ret.raised
        /\ \A i \in DOMAIN call.file_paths :
              files[call.file_paths[i]].readable =>
                 ret.hashed[i] = StripWhitespace(files[call.file_paths[i]].content)
        /\ \A i \in DOMAIN call.file_paths, j \in DOMAIN call.file_paths :
              (/\ files[call.file_paths[i]].readable
               /\ files[call.file_paths[j]].readable
               /\ StripWhitespace(files[call.file_paths[i]].content)
                     = StripWhitespace(files[call.file_paths[j]].content)) =>
                 ret.value[i] = ret.value[j]

\* C20 witness: "plain" with the four bytes inserted and "plain" itself are
\* fingerprinted in one call; both get 58396 * 2^16 + 715, the value the
\* code computes for b"plain".
C20_Witness ==
    /\ HashDone
    /\ call.file_paths = <<P_ALPHA, P_BETA>>
    /\ files[P_ALPHA].content = CONTENT_SPACED
    /\ files[P_BETA].content = CONTENT_PLAIN
    /\ ret.value[1] = <<58396, 715>>
    /\ ret.value[2] = <<58396, 715>>

\* ------------------------------------------------------------ murmurhash2
MurmurDone == call.op = "murmurhash2" /\ pc = "done"

\* a 32-bit value: both halves within 16 bits
Within32Bits(w) == w[1] \in 0..65535 /\ w[2] \in 0..65535

\* C21: with a length that is no multiple of 4, each of the 1 to 3 tail
\* bytes is folded into the accumulator before the final mixing, so that
\* replacing a single tail byte changes the accumulator that enters the
\* final mixing; accumulator and result stay within 32 bits.
C21_TailBytesFolded ==
    MurmurDone =>
        /\ ret.acc[1] # ret.acc[2]
        /\ \A i \in 1..2 : Within32Bits(ret.acc[i]) /\ Within32Bits(ret.value[i])

\* ------------------------------------------------------ catalog order
\* the fingerprint of fp is in a request sent to catalog B
FingerprintSent(fp) ==
    \E i \in DOMAIN cf_calls : compute_curseforge_hash(fp) \in Range(cf_calls[i])

\* C22: in batch_collect_evidence catalog A is asked first and a fingerprint
\* goes to catalog B only for the artifacts catalog A returned no match
\* for: an artifact matched by A has no fingerprint sent and receives no
\* curseforge evidence, and every artifact not matched by A is looked up in
\* B when a client for B is configured and its fingerprint is valid.
C22_CatalogBOnlyForUnmatched ==
    (BatchCollectDone /\ \A fp \in Range(call.file_paths) : files[fp].readable) =>
        /\ ~ret.raised
        /\ \A fp \in Range(call.file_paths) :
              /\ ~ModrinthMisses(fp) =>
                    (~FingerprintSent(fp) /\ ~HasSource(ret.value[fp], "curseforge"))
              /\ (/\ ModrinthMisses(fp)
                  /\ call.has_cf
                  /\ compute_curseforge_hash(fp) # NO_FINGERPRINT) => FingerprintSent(fp)

RequestDone == call.op = "_request" /\ pc = "done"

\* a connection error, a timeout, a 5xx answer or a 429 answer
IsTransient(o) ==
    \/ o.kind \in {"URLError", "timeout", "ConnectionError"}
    \/ o.kind = "HTTPError" /\ (o.code = 429 \/ (500 <= o.code /\ o.code < 600))

\* no call makes more than max_retries + 1 attempts
AttemptsBounded == Len(net.outcomes) <= net.max_retries + 1

\* an attempt that ended in a transient failure is followed by another attempt
\* while attempts remain, and by the result (0, None) when none remains
TransientRetried ==
    (net.outcomes # <<>> /\ IsTransient(net.outcomes[Len(net.outcomes)])) =>
        IF Len(net.outcomes) <= net.max_retries
        THEN pc = "loop" /\ ~net.broke /\ net.attempt = Len(net.outcomes)
        ELSE \/ pc = "loop" /\ net.attempt > net.max_retries
             \/ RequestDone /\ ret = [raised |-> FALSE, value |-> <<0, None>>]

\* C23: NetworkClient._request ends after at most max_retries + 1 attempts: an
\* attempt that fails with a connection error, a timeout, a 5xx or a 429 is
\* followed by the next attempt, and a call whose attempts all fail this way
\* returns (0, None) and raises nothing.
C23_RequestTerminates ==
    /\ [](AttemptsBounded /\ TransientRetried /\ ~ret.raised)
    /\ (pc = "loop") ~> RequestDone

C23_Witness ==
    /\ RequestDone
    /\ net.max_retries >= 2
    /\ Len(net.outcomes) = net.max_retries + 1
    /\ \A i \in DOMAIN net.outcomes : IsTransient(net.outcomes[i])
    /\ \E i, j, k \in DOMAIN net.outcomes :
          /\ net.outcomes[i] = HTTPError(429)
          /\ net.outcomes[j] = HTTPError(500)
          /\ net.outcomes[k] = Failure("timeout")
    /\ ret.value = <<0, None>>

\* C24: a 404 answer ends _request on the attempt where it occurs: the call
\* returns (404, None), that attempt does not sleep, and no attempt follows it,
\* whatever number of retries remains.
C24_NotFoundIsImmediate ==
    \A i \in DOMAIN net.outcomes :
        net.outcomes[i] = HTTPError(404) =>
            /\ i = Len(net.outcomes)
            /\ RequestDone
            /\ ret = [raised |-> FALSE, value |-> <<404, None>>]
            /\ Len(net.slept) = i - 1
            /\ net.attempt = i - 1

C24_Witness ==
    /\ RequestDone
    /\ net.max_retries = 3
    /\ Len(net.outcomes) = 2
    /\ net.outcomes[1] = HTTPError(500)
    /\ net.outcomes[2] = HTTPError(404)
    /\ net.slept = <<1>>

\* the evidence items in the value an operation returned: the lists of
\* batch_collect_evidence, or the evidence fields of the results of check_files
ItemsReturned ==
    IF BatchCollectDone /\ ~ret.raised
    THEN UNION {Range(ret.value[fp]) : fp \in Range(call.file_paths)}
    ELSE IF CheckFilesReturned
         THEN UNION {Range(ret.value[i].evidence) : i \in DOMAIN ret.value}
         ELSE {}

\* the reliability of a source, as the claim orders the sources
SourceRank(source) ==
    CASE source = "modrinth" -> 4
      [] source = "curseforge" -> 3
      [] source = "local_metadata" -> 2
      [] source = "heuristic" -> 1

\* C25: the confidence of every evidence item is ordered by its source: an item
\* of modrinth is above every item of curseforge, an item of a catalog above
\* every item of local_metadata, an item of local_metadata above every item of
\* heuristic; every confidence lies in [0, 1] (0..10 in tenths).
C25_ConfidenceOrderedBySource ==
    \A a, b \in ItemsReturned :
        /\ a.confidence \in 0..10
        /\ SourceRank(a.source) > SourceRank(b.source) => a.confidence > b.confidence

\* an item that states a verdict, not only that a catalog knows the file
IsDecisive(e) == e.level # LEVEL_UNKNOWN

\* C25, amended: among the items whose level is not UNKNOWN the confidence is
\* ordered by the source (modrinth above curseforge above local_metadata above
\* heuristic); an UNKNOWN item of a source is never above a decisive item of the
\* same source; every confidence lies in [0, 1].
C25_DecisiveOrderedBySource ==
    \A a, b \in ItemsReturned :
        /\ a.confidence \in 0..10
        /\ (IsDecisive(a) /\ IsDecisive(b) /\ SourceRank(a.source) > SourceRank(b.source))
              => a.confidence > b.confidence
        /\ (IsDecisive(a) /\ ~IsDecisive(b) /\ a.source = b.source)
              => a.confidence >= b.confidence

C25_Witness ==
    /\ CheckFilesReturned
    /\ \E a, b, c, d \in ItemsReturned :
          /\ a.source = "curseforge" /\ IsDecisive(a)
          /\ b.source = "curseforge" /\ ~IsDecisive(b)
          /\ c.source = "local_metadata" /\ IsDecisive(c)
          /\ d.source = "heuristic" /\ IsDecisive(d)
          /\ b.confidence < c.confidence

\* the winning evidence of a non-empty list: the first item, in list order, of
\* the highest confidence
Winning(evs) ==
    evs[CHOOSE i \in DOMAIN evs :
            \A j \in DOMAIN evs :
                /\ evs[j].confidence <= evs[i].confidence
                /\ j < i => evs[j].confidence < evs[i].confidence]

\* the status the claim gives to a winning evidence
ClaimedStatus(e) ==
    CASE e.level \in {CONFIRMED, LIKELY, POSSIBLE} -> OK
      [] e.level = UNSUPPORTED /\ HasLoaderWord(e.reason) -> WRONG_LOADER
      [] e.level = UNSUPPORTED /\ ~HasLoaderWord(e.reason) -> WRONG_MC
      [] e.level = LEVEL_UNKNOWN -> STATUS_UNKNOWN

\* result r carries the level and reason of the winning evidence of its list
\* and the status the claim derives from them
StatusFollows(r) ==
    /\ r.evidence # <<>> =>
          /\ r.level = Winning(r.evidence).level
          /\ r.reason = Winning(r.evidence).reason
          /\ r.status = ClaimedStatus(Winning(r.evidence))
    /\ r.status = STATUS_UNKNOWN <=> r.level = LEVEL_UNKNOWN
    /\ r.status \in {WRONG_LOADER, WRONG_MC} <=> r.level = UNSUPPORTED

\* the results in the value returned by evaluate or by check_files
ResultsReturned ==
    IF EvaluateDone /\ ~ret.raised THEN {ret.value}
    ELSE IF CheckFilesReturned THEN Range(ret.value) ELSE {}

\* C27: the status of a result is determined by its winning evidence: OK for
\* the levels CONFIRMED, LIKELY and POSSIBLE; for UNSUPPORTED, WRONG_LOADER when
\* the reason contains "loader" in any case and WRONG_MC otherwise; UNKNOWN for
\* UNKNOWN.  UNKNOWN and UNSUPPORTED never share a status.
C27_StatusFromWinningEvidence == \A r \in ResultsReturned : StatusFollows(r)

C27_Witness ==
    /\ CheckFilesReturned
    /\ \E r1, r2 \in Range(ret.value) :
          /\ r1.level = UNSUPPORTED /\ r1.status = WRONG_LOADER
          /\ r2.level = UNSUPPORTED /\ r2.status = WRONG_MC
          /\ Len(r1.evidence) > 1

LocalCollectDone == call.op = "collect_evidence" /\ pc = "done"

\* what each descriptor family of archive z yields when its collector runs
FamilyEvidence(z, target_mc, expected_loader) ==
    <<IF z.fabric.present
      THEN collect_fabric_evidence(z.fabric, target_mc, expected_loader).evs ELSE <<>>,
      IF z.forge.present
      THEN collect_forge_evidence(z.forge.lines, target_mc, expected_loader).evs ELSE <<>>,
      IF z.neoforge.present
      THEN collect_neoforge_evidence(z.neoforge.lines, target_mc, expected_loader).evs
      ELSE <<>>,
      IF z.quilt.present
      THEN collect_quilt_evidence(z.quilt, target_mc, expected_loader).evs ELSE <<>>>>

\* C28: collect_evidence returns the evidence of every descriptor family
\* present in the archive, whatever the families before it gave, followed by
\* the evidence of the filename heuristic; the heuristic's evidence is there
\* also for a file that is no readable archive or has a descriptor that does
\* not parse.
C28_EveryFamilyAndHeuristic ==
    LocalCollectDone =>
        /\ ~ret.raised
        /\ EndsWith(ret.value,
                    collect_heuristic_evidence(Basename(P_BETA), call.target_mc,
                                               call.expected_loader, call.relaxed))
        /\ (files[P_BETA].readable /\ files[P_BETA].archive.is_zip) =>
              \A e \in UNION {Range(evs) : evs \in Range(FamilyEvidence(files[P_BETA].archive,
                                                   call.target_mc, call.expected_loader))} :
                  e \in Range(ret.value)

\* the records catalog A holds for the content of fp
ModrinthRecords(fp) ==
    {modrinth.items[i][2] : i \in {j \in DOMAIN modrinth.items :
                                       modrinth.items[j][1] = files[fp].sha1}}

\* record data names no loader compatible with the expected one
NoCompatibleLoader(data, expected_loader) ==
    /\ data.is_dict
    /\ \A i \in DOMAIN data.loaders :
          Lower(data.loaders[i]) \notin LOADER_COMPAT(Lower(expected_loader))

\* C29: when an expected loader is given and the catalog A record of a file
\* names no compatible loader, the result check_files returns for the file
\* from that record is UNSUPPORTED with WRONG_LOADER, also when the record's
\* versions contain the target version.
C29_LoaderMismatchNeverPositive ==
    (CheckFilesReturned /\ call.expected_loader # None) =>
        \A r \in Range(ret.value) :
            (/\ HasSource(r.evidence, "modrinth")
             /\ \E data \in ModrinthRecords(r.file_path) :
                   NoCompatibleLoader(data, call.expected_loader))
                => (r.level = UNSUPPORTED /\ r.status = WRONG_LOADER)

\* C26: once stop_event is set, _run_check starts no catalog batch request and
\* emits no result any more (a request already started may return), and the
\* run ends with one call of _finish_check.
C26_StopIsCooperative ==
    /\ gui.stop_event =>
          /\ Len(gui.requests) = gui.stopped_at[1]
          /\ Len(gui.results_data) = gui.stopped_at[2]
    /\ (call.op = "_run_check" /\ pc = "done") => (gui.finished = 1 /\ ~gui.is_running)

\* C30: with a CurseForge client configured, every NOT_FOUND entry written to
\* the cache, in memory or saved to the file, belongs to a run whose
\* CurseForge batch lookup was made and has returned.
C30_NotFoundCachedAfterLookup ==
    \A i \in DOMAIN gui.data :
        (gui.cf_client /\ gui.data[i].status = STATUS_NOT_FOUND) =>
            /\ "curseforge" \in Range(gui.requests)
            /\ pc # "curseforge_request"
====
